---- MODULE Spec2Model ----
(***************************************************************************)
(* State-machine model of the video-prompt-uploader server                 *)
(* (src/server/index.js): the flat-file submission store, the upload       *)
(* route, the asynchronous pipeline routes (transcribe, screenshot,        *)
(* analyze, clip generation, splice) and the pure parser of the 4-line     *)
(* model response.                                                         *)
(*                                                                         *)
(* Every route handler that awaits an external binary or API is split at   *)
(* its awaits: the part before the first await (which reads the store) is  *)
(* one action, each resumption is another.  Synchronous handlers are one   *)
(* action.  Text is modelled as sequences of one-character strings so that *)
(* trim / split / prefix matching are computed, not assumed.               *)
(***************************************************************************)
EXTENDS Integers, Sequences, FiniteSets, TLC

\* ------------------------------------------------------------------ bounds
\* number of request slots (requests that may be in flight together)
NSlots == 2
\* total number of requests (and manual cleanups) in one behaviour
MaxReqs == 2
\* number of submissions that can be created (pool of fresh nanoid values)
MaxSubs == 2
MaxBreakMs == 12
MaxLines == 2
MaxBlocks == 2
MaxSecs == 3
MaxWords == 2
\* polls of one video-generation operation that may find it not done
MaxPolls == 2
\* chunks one child process writes before it closes
MaxChunks == 2
\* positions of the quiz video's clock, and recognition sessions one playback starts
MaxTime == 4
MaxSessions == 3

\* ------------------------------------------------------------ text helpers
IsSpace(c) == c \in {" ", "\t", "\r", "\n"}

RECURSIVE LTrim(_)
LTrim(s) == IF s = <<>> THEN <<>>
            ELSE IF IsSpace(Head(s)) THEN LTrim(Tail(s)) ELSE s

RECURSIVE RTrim(_)
RTrim(s) == IF s = <<>> THEN <<>>
            ELSE IF IsSpace(s[Len(s)]) THEN RTrim(SubSeq(s, 1, Len(s) - 1)) ELSE s

\* String.prototype.trim
Trim(s) == RTrim(LTrim(s))

\* ------------------------------------------------------------------- store
NULL == [null |-> TRUE]

\* src/server/index.js:48
MAX_BYTES == 25 * 1024 * 1024

\* fileFilter's allow list
AllowedMime == {"video/mp4", "video/webm", "video/quicktime"}

\* fileFilter(_req, file, cb): TRUE when the file is accepted
fileFilter(file) == file.mimetype \in AllowedMime

\* (variant: the limit is only raised by a byte past fileSize)
LimitFileSize_OffByOne(file) == file.size > MAX_BYTES

\* multer's limits.fileSize: the stream is cut and LIMIT_FILE_SIZE raised
\* once fileSize bytes have been received
LimitFileSize(file) == file.size >= MAX_BYTES

\* upload.single("video"): "NONE" when the middleware calls the handler,
\* otherwise the error handed to the error middleware.  In both error cases
\* multer leaves no file in UPLOAD_DIR (the filter runs before the storage
\* engine; a file cut by the limit is removed again).
MulterError(file) ==
    IF file = NULL THEN "NONE"
    ELSE IF ~fileFilter(file) THEN "FILTER"
    ELSE IF LimitFileSize(file) THEN "LIMIT_FILE_SIZE"
    ELSE "NONE"

\* the error middleware at the end of the app
MulterErrorStatus(code) == IF code = "LIMIT_FILE_SIZE" THEN 413 ELSE 400

\* submissions.unshift(submission)
Unshift(list, x) == <<x>> \o list

\* submissions.findIndex((s) => s.id === id); 0 stands for -1
FindIndex(list, id) ==
    IF \E i \in 1..Len(list) : list[i].id = id
    THEN CHOOSE i \in 1..Len(list) :
            list[i].id = id /\ \A j \in 1..(i - 1) : list[j].id # id
    ELSE 0

Ids(list) == {list[i].id : i \in 1..Len(list)}

\* submissions[idx] = sub
SetAt(list, idx, sub) == [list EXCEPT ![idx] = sub]

\* --------------------------------------------------- more text helpers
LowerLetters == <<"a","b","c","d","e","f","g","h","i","j","k","l","m",
                  "n","o","p","q","r","s","t","u","v","w","x","y","z">>
UpperLetters == <<"A","B","C","D","E","F","G","H","I","J","K","L","M",
                  "N","O","P","Q","R","S","T","U","V","W","X","Y","Z">>

\* one character of String.prototype.toUpperCase
UpperChar(c) ==
    IF \E i \in 1..26 : LowerLetters[i] = c
    THEN UpperLetters[CHOOSE i \in 1..26 : LowerLetters[i] = c]
    ELSE c

ToUpperCase(s) == [i \in 1..Len(s) |-> UpperChar(s[i])]

\* String.prototype.startsWith
StartsWith(s, p) == Len(s) >= Len(p) /\ SubSeq(s, 1, Len(p)) = p

\* s.split("\n")
RECURSIVE SplitLines(_)
SplitLines(s) ==
    IF \E i \in 1..Len(s) : s[i] = "\n"
    THEN LET i == CHOOSE k \in 1..Len(s) :
                     s[k] = "\n" /\ \A j \in 1..(k - 1) : s[j] # "\n"
         IN  <<SubSeq(s, 1, i - 1)>> \o SplitLines(SubSeq(s, i + 1, Len(s)))
    ELSE <<s>>

\* .map((l) => l.trim()).filter(Boolean)
RECURSIVE TrimmedNonEmpty(_)
TrimmedNonEmpty(ls) ==
    IF ls = <<>> THEN <<>>
    ELSE LET t == Trim(Head(ls))
         IN  IF t = <<>> THEN TrimmedNonEmpty(Tail(ls))
                         ELSE <<t>> \o TrimmedNonEmpty(Tail(ls))

IsDigit(c) == c \in {"0","1","2","3","4","5","6","7","8","9"}
DigitVal(c) == CHOOSE d \in 0..9 : <<"0","1","2","3","4","5","6","7","8","9">>[d + 1] = c

\* Number("ddd") for a non-empty run of decimal digits
RECURSIVE DigitsToNumber(_)
DigitsToNumber(ds) ==
    IF ds = <<>> THEN 0
    ELSE 10 * DigitsToNumber(SubSeq(ds, 1, Len(ds) - 1)) + DigitVal(ds[Len(ds)])

\* first position >= p of s that does not hold white space (\s*)
RECURSIVE SkipSpaces(_, _)
SkipSpaces(s, p) == IF p <= Len(s) /\ IsSpace(s[p]) THEN SkipSpaces(s, p + 1) ELSE p

\* first position >= p of s that does not hold a digit (\d*, greedy)
RECURSIVE SkipDigits(_, _)
SkipDigits(s, p) == IF p <= Len(s) /\ IsDigit(s[p]) THEN SkipDigits(s, p + 1) ELSE p

\* ----------------------------------------------- parseGeminiFourLines
\* a number-or-null field: null is the empty tuple, the number n is <<n>>
NullNum == <<>>
Num(n) == <<n>>

L_SHOW   == <<"S","H","O","W",":">>
L_BREAK  == <<"L","O","N","G","E","S","T","_","B","R","E","A","K","_","M","S",":">>
L_CLIP1  == <<"C","L","I","P","_","1","_","Q","U","E","S","T","I","O","N",":">>
L_CLIP2  == <<"C","L","I","P","_","2","_","A","N","S","W","E","R",":">>
S_Unknown == <<"U","n","k","n","o","w","n">>

\* (variant: the label is looked for as written, without toUpperCase)
FindLine_CaseSensitive(lines, label) ==
    IF \E i \in 1..Len(lines) : StartsWith(lines[i], label)
    THEN lines[CHOOSE i \in 1..Len(lines) :
                 /\ StartsWith(lines[i], label)
                 /\ \A j \in 1..(i - 1) : ~StartsWith(lines[j], label)]
    ELSE <<>>

\* lines.find((l) => l.toUpperCase().startsWith(label)) || ""
FindLine(lines, label) ==
    IF \E i \in 1..Len(lines) : StartsWith(ToUpperCase(lines[i]), label)
    THEN lines[CHOOSE i \in 1..Len(lines) :
                 /\ StartsWith(ToUpperCase(lines[i]), label)
                 /\ \A j \in 1..(i - 1) : ~StartsWith(ToUpperCase(lines[j]), label)]
    ELSE <<>>

\* line.replace(/^LABEL:\s*/i, "").trim()
StripLabel(line, label) ==
    IF StartsWith(ToUpperCase(line), label)
    THEN Trim(SubSeq(line, SkipSpaces(line, Len(label) + 1), Len(line)))
    ELSE Trim(line)

\* /LONGEST_BREAK_MS:\s*(\d+)\s*-\s*(\d+)\s*\((\d+)\)/i tried at position p:
\* the three captured digit runs, or <<>> when the pattern does not match at p
BreakMatchAt(s, p) ==
    LET u  == ToUpperCase(s)
        a0 == SkipSpaces(s, p + Len(L_BREAK))
        a1 == SkipDigits(s, a0)
        d0 == SkipSpaces(s, a1)
        b0 == SkipSpaces(s, d0 + 1)
        b1 == SkipDigits(s, b0)
        o0 == SkipSpaces(s, b1)
        c0 == o0 + 1
        c1 == SkipDigits(s, c0)
    IN  IF /\ p + Len(L_BREAK) - 1 <= Len(s)
           /\ SubSeq(u, p, p + Len(L_BREAK) - 1) = L_BREAK
           /\ a1 > a0
           /\ d0 <= Len(s) /\ s[d0] = "-"
           /\ b1 > b0
           /\ o0 <= Len(s) /\ s[o0] = "("
           /\ c1 > c0
           /\ c1 <= Len(s) /\ s[c1] = ")"
        THEN <<SubSeq(s, a0, a1 - 1), SubSeq(s, b0, b1 - 1), SubSeq(s, c0, c1 - 1)>>
        ELSE <<>>

\* breakLine.match(...): the leftmost match (the pattern is not anchored)
BreakMatch(s) ==
    IF \E p \in 1..Len(s) : BreakMatchAt(s, p) # <<>>
    THEN BreakMatchAt(s, CHOOSE p \in 1..Len(s) :
                            /\ BreakMatchAt(s, p) # <<>>
                            /\ \A q \in 1..(p - 1) : BreakMatchAt(s, q) = <<>>)
    ELSE <<>>

\* the longestBreak record built from the match
LongestBreak(breakLine) ==
    LET m == BreakMatch(breakLine)
    IN  IF m # <<>>
        THEN [breakStartMs    |-> Num(DigitsToNumber(m[1])),
              breakEndMs      |-> Num(DigitsToNumber(m[2])),
              breakDurationMs |-> Num(DigitsToNumber(m[3]))]
        ELSE [breakStartMs |-> NullNum, breakEndMs |-> NullNum, breakDurationMs |-> NullNum]

\* (variant: without the || "Unknown" default)
ShowName_NoDefault(showLine) == StripLabel(showLine, L_SHOW)

\* showLine.replace(/^SHOW:\s*/i, "").trim() || "Unknown"
ShowName(showLine) ==
    LET v == StripLabel(showLine, L_SHOW)
    IN  IF v = <<>> THEN S_Unknown ELSE v

parseGeminiFourLines(rawText) ==
    LET lines     == TrimmedNonEmpty(SplitLines(rawText))
        showLine  == FindLine(lines, L_SHOW)
        breakLine == FindLine(lines, L_BREAK)
        qLine     == FindLine(lines, L_CLIP1)
        aLine     == FindLine(lines, L_CLIP2)
    IN  [show          |-> ShowName(showLine),
         longestBreak  |-> LongestBreak(breakLine),
         clip1Question |-> StripLabel(qLine, L_CLIP1),
         clip2Answer   |-> StripLabel(aLine, L_CLIP2)]

\* ----------------------------------------------------------------- parseSrt
\* /\n\s*\n/ tried at the "\n" at position i: the white space that follows is
\* taken greedily and given back up to its last "\n"; the position of that
\* "\n", or 0 when the pattern does not match at i
SeparatorEnd(s, i) ==
    LET e  == SkipSpaces(s, i + 1)
        nl == {k \in (i + 1)..(e - 1) : s[k] = "\n"}
    IN  IF nl = {} THEN 0 ELSE CHOOSE k \in nl : \A j \in nl : j <= k

\* srt.split(/\n\s*\n/)
RECURSIVE SplitBlocks(_)
SplitBlocks(s) ==
    LET starts == {i \in 1..Len(s) : s[i] = "\n" /\ SeparatorEnd(s, i) # 0}
    IN  IF starts = {} THEN <<s>>
        ELSE LET i == CHOOSE k \in starts : \A j \in starts : k <= j
             IN  <<SubSeq(s, 1, i - 1)>>
                   \o SplitBlocks(SubSeq(s, SeparatorEnd(s, i) + 1, Len(s)))

\* \d\d:\d\d:\d\d[.,]\d\d\d at position p
StampAt(s, p) ==
    /\ p + 11 <= Len(s)
    /\ \A k \in {0, 1, 3, 4, 6, 7, 9, 10, 11} : IsDigit(s[p + k])
    /\ s[p + 2] = ":" /\ s[p + 5] = ":"
    /\ s[p + 8] \in {".", ","}

\* timeRe tried at position p: the two captured stamps, or <<>>
TimeMatchAt(s, p) ==
    LET a == SkipSpaces(s, p + 12)
        b == SkipSpaces(s, a + 3)
    IN  IF /\ StampAt(s, p)
           /\ a + 2 <= Len(s) /\ SubSeq(s, a, a + 2) = <<"-", "-", ">">>
           /\ StampAt(s, b)
        THEN <<SubSeq(s, p, p + 11), SubSeq(s, b, b + 11)>>
        ELSE <<>>

\* lines[1].match(timeRe): the leftmost match (the pattern is not anchored)
TimeMatch(s) ==
    IF \E p \in 1..Len(s) : TimeMatchAt(s, p) # <<>>
    THEN TimeMatchAt(s, CHOOSE p \in 1..Len(s) :
                           /\ TimeMatchAt(s, p) # <<>>
                           /\ \A q \in 1..(p - 1) : TimeMatchAt(s, q) = <<>>)
    ELSE <<>>

\* toMs: [hh, mm, rest] = t.split(":"), [ss, ms] = rest with "." made ","
\* split at ","; t has the shape the pattern captured
toMs(t) ==
    LET hh == SubSeq(t, 1, 2)
        mm == SubSeq(t, 4, 5)
        ss == SubSeq(t, 7, 8)
        ms == SubSeq(t, 10, 12)
    IN  DigitsToNumber(hh) * 3600000 + DigitsToNumber(mm) * 60000
          + DigitsToNumber(ss) * 1000 + DigitsToNumber(ms)

\* lines.slice(2).join(" ")
RECURSIVE JoinWithSpace(_)
JoinWithSpace(ls) ==
    IF ls = <<>> THEN <<>>
    ELSE IF Len(ls) = 1 THEN ls[1]
    ELSE ls[1] \o <<" ">> \o JoinWithSpace(Tail(ls))

\* (variant: the text starts at the stamp line)
SrtText_FromStampLine(lines) == JoinWithSpace(SubSeq(lines, 2, Len(lines)))

SrtText(lines) == JoinWithSpace(SubSeq(lines, 3, Len(lines)))

\* the body of the loop over the blocks: the items a block adds
SrtItem(b) ==
    LET lines == TrimmedNonEmpty(SplitLines(b))
        m     == IF Len(lines) < 3 THEN <<>> ELSE TimeMatch(lines[2])
    IN  IF Len(lines) < 3 \/ m = <<>> THEN <<>>
        ELSE <<[startMs |-> toMs(m[1]), endMs |-> toMs(m[2]), text |-> SrtText(lines)]>>

RECURSIVE SrtItems(_)
SrtItems(blocks) ==
    IF blocks = <<>> THEN <<>> ELSE SrtItem(Head(blocks)) \o SrtItems(Tail(blocks))

parseSrt(srt) == SrtItems(TrimmedNonEmpty(SplitBlocks(srt)))

\* ------------------------------------------------------------------ state
VARIABLES
    store,      \* parsed content of data/submissions.json (newest first)
    uploadDir,  \* files in uploads/: <<"sub", id>> stored for a submission,
                \* <<"tmp", k>> stored for an ad-hoc splice
    shotsDir,   \* submission ids with a screenshots/<id>_mid.png
    veoDir,     \* <<id, n>> for every veo_outputs/<id>_clip<n>.mp4
    tempDir,    \* n for every legacy temp/v<n>.mp4
    eavsDir,    \* number of spliced outputs in EAVs/
    env,        \* process.env: which settings are present
    req,        \* the request handled in each slot and where its handler stands
    nreq,       \* requests received and manual cleanups done so far
    nextId,     \* submission ids handed out so far (nanoid(12))
    probe,      \* a function under study on its own: its input, progress and result
    skill       \* the voice skill's Lambda: its settings and the invocation it is handling

vars == <<store, uploadDir, shotsDir, veoDir, tempDir, eavsDir, env, req, nreq, nextId, probe, skill>>

Slots == 1..NSlots

\* the Lambda before any invocation, with no setting drawn
SkillOff == [pc |-> "off"]

\* ids a client may name: every id the pool can hand out, before or after
\* it is handed out
ReqIds == 1..MaxSubs

IdleReq ==
    [kind |-> "none", pc |-> "idle", id |-> 0, snap |-> <<>>, idx |-> 0,
     status |-> 0, error |-> "", cached |-> FALSE, out |-> NULL,
     calls |-> {}, wrote |-> FALSE, in |-> NULL, aux |-> NULL, before |-> <<>>,
     gone |-> FALSE]

\* a slot is free once its request has been answered
Free(r) == req[r].pc \in {"idle", "done"}

\* an answered request stays visible in its slot for one step only
Cleared == [q \in Slots |-> IF req[q].pc = "done" THEN IdleReq ELSE req[q]]

\* a new request is taken by the lowest slot that is not handling one
CanStart(r) ==
    /\ nreq < MaxReqs
    /\ Free(r)
    /\ \A q \in Slots : q < r => ~Free(q)

\* a request as it arrives; besides the handler's own variables it records
\* what the server's state was on arrival: the store (snap), the position of
\* the named submission in it (idx, 0 when there is none) and whether that
\* submission's video file was missing from uploads/ (gone)
NewReq(kind, id) ==
    LET idx == FindIndex(store, id)
    IN  [IdleReq EXCEPT !.kind = kind, !.id = id, !.snap = store, !.idx = idx,
                        !.gone = (idx # 0 /\ store[idx].file.path \notin uploadDir)]

\* res.status(code).json({ ok: false, error })
Fail(rq, code, error) == [rq EXCEPT !.pc = "done", !.status = code, !.error = error]

\* res.json({ ok: true, ... })
Ok(rq) == [rq EXCEPT !.pc = "done", !.status = 200]

RespOk(rq) == rq.pc = "done" /\ rq.status = 200

\* run(cmd, args) / an API call is issued
Call(rq, what) == [rq EXCEPT !.calls = @ \cup {what}]

\* the handler in slot r has run up to its next await (rq.pc names it) or to
\* its response; an answered request also records the store as it was just
\* before the answering step
Settle(r, rq) ==
    req' = [Cleared EXCEPT ![r] = IF rq.pc = "done" THEN [rq EXCEPT !.before = store] ELSE rq]

\* the request answered by the last step, IdleReq when that step answered none
Last ==
    IF \E q \in Slots : req[q].pc = "done"
    THEN req[CHOOSE q \in Slots : req[q].pc = "done"]
    ELSE IdleReq

\* ------------------------------------------------------- POST /api/upload
S_goal == <<"g", "o">>

\* the prompt fields and the files clients send while the pipeline runs
UploadPrompts == {<<" ">>, S_goal}
UploadFiles == [mimetype : {"video/mp4"}, size : {MAX_BYTES - 1, MAX_BYTES}]

\* the submission record built by the handler
NewSubmission(id, path, prompt, file) ==
    [id |-> id, prompt |-> prompt,
     transcript |-> NULL, gemini |-> NULL, veo |-> NULL,
     file |-> [path |-> path, sizeBytes |-> file.size, mimetype |-> file.mimetype]]

\* a variant of the insertion that writes the new submission alone
InsertSubmission_Alone(list, submission) == <<submission>>

\* a variant of the insertion that puts the submission at the end
InsertSubmission_Push(list, submission) == Append(list, submission)

\* readSubmissions(); submissions.unshift(submission); writeSubmissions(submissions)
InsertSubmission(list, submission) == Unshift(list, submission)

\* the whole route: multer middleware, handler, error middleware
UploadWith(r, file, rawPrompt) ==
    LET rq     == [NewReq("upload", 0) EXCEPT !.in = [file |-> file, prompt |-> rawPrompt]]
        merr   == MulterError(file)
        prompt == Trim(rawPrompt)
        \* the name diskStorage gives the file (fresh: it embeds a nanoid)
        path   == <<"sub", nextId + 1>>
        stored == IF file # NULL /\ merr = "NONE" THEN uploadDir \cup {path} ELSE uploadDir
    IN  /\ CanStart(r)
        /\ IF merr # "NONE"
           THEN /\ Settle(r, Fail(rq, MulterErrorStatus(merr), merr))
                /\ UNCHANGED <<store, uploadDir, nextId>>
           ELSE IF prompt = <<>>
           THEN \* if (req.file?.path) fs.unlinkSync(req.file.path)
                /\ Settle(r, Fail(rq, 400, "Prompt is required."))
                /\ uploadDir' = stored \ {path}
                /\ UNCHANGED <<store, nextId>>
           ELSE IF file = NULL
           THEN /\ Settle(r, Fail(rq, 400, "Video file is required."))
                /\ UNCHANGED <<store, uploadDir, nextId>>
           ELSE /\ nextId < MaxSubs
                /\ LET submission == NewSubmission(nextId + 1, path, prompt, file)
                   IN  /\ store' = InsertSubmission(store, submission)
                       /\ Settle(r, [Ok(rq) EXCEPT !.out = submission, !.wrote = TRUE,
                                                    !.id = submission.id])
                /\ uploadDir' = stored
                /\ nextId' = nextId + 1
        /\ nreq' = nreq + 1
        /\ UNCHANGED <<shotsDir, veoDir, tempDir, eavsDir, env, probe, skill>>

Upload(r) == \E file \in UploadFiles, prompt \in UploadPrompts : UploadWith(r, file, prompt)

\* -------------------------------------------------- GET /api/submissions
ListSubmissions(r) ==
    /\ CanStart(r)
    /\ Settle(r, Ok(NewReq("list", 0)))
    /\ nreq' = nreq + 1
    /\ UNCHANGED <<store, uploadDir, shotsDir, veoDir, tempDir, eavsDir, env, nextId, probe, skill>>

\* ------------------------------------------------------- GET /api/health
Health(r) ==
    /\ CanStart(r)
    /\ Settle(r, Ok(NewReq("health", 0)))
    /\ nreq' = nreq + 1
    /\ UNCHANGED <<store, uploadDir, shotsDir, veoDir, tempDir, eavsDir, env, nextId, probe, skill>>

\* --------------------------------------- manual cleanup outside the server
RemoveUploadedFile ==
    /\ nreq < MaxReqs
    /\ \E f \in uploadDir : uploadDir' = uploadDir \ {f}
    /\ nreq' = nreq + 1
    /\ req' = Cleared
    /\ UNCHANGED <<store, shotsDir, veoDir, tempDir, eavsDir, env, nextId, probe, skill>>

\* every handler step leaves the environment and the id pool alone
StageFrame == UNCHANGED <<tempDir, env, nextId, probe, skill>>

\* ------------------------------------------------ POST /api/transcribe/:id
S_hi == <<"h", "i">>

\* what one run of the speech-to-text binary leaves in <prefix>.txt (trimmed)
\* and, parsed, in <prefix>.srt: nothing recognised, or one phrase
S_srt == <<"1", "\n">>
           \o <<"0","0",":","0","0",":","0","1",",","0","0","0">> \o <<" ", "-", "-", ">", " ">>
           \o <<"0","0",":","0","0",":","0","3",",","5","0","0">> \o <<"\n">> \o S_hi \o <<"\n">>

WhisperOutputs ==
    { [text |-> <<>>, segments |-> <<>>],
      [text |-> S_hi, segments |-> parseSrt(S_srt)] }

\* (variant: the test on the trimmed length is inverted)
TranscriptCached_Inverted(sub) ==
    /\ sub.transcript # NULL
    /\ Len(Trim(sub.transcript.text)) = 0

\* sub.transcript?.text && sub.transcript.text.trim().length > 0
TranscriptCached(sub) ==
    /\ sub.transcript # NULL
    /\ sub.transcript.text # <<>>
    /\ Len(Trim(sub.transcript.text)) > 0

\* sub.transcript = {...}; submissions[idx] = sub; writeSubmissions(submissions)
WithTranscript(list, idx, t) == SetAt(list, idx, [list[idx] EXCEPT !.transcript = t])

\* up to the first await: read the store, look the id up, serve the cache,
\* check the model path, spawn ffmpeg
TranscribeStart(r) ==
    \E id \in ReqIds :
    LET rq  == NewReq("transcribe", id)
        idx == rq.idx
    IN  /\ CanStart(r)
        /\ Settle(r,
              IF idx = 0 THEN Fail(rq, 404, "Submission not found.")
              ELSE IF TranscriptCached(store[idx])
                   THEN [Ok(rq) EXCEPT !.out = store[idx].transcript, !.cached = TRUE]
              ELSE IF ~env.whisperModel
                   THEN Fail(rq, 500, "Missing WHISPER_MODEL_PATH")
              ELSE [Call(rq, "ffmpeg") EXCEPT !.pc = "t_ffmpeg"])
        /\ nreq' = nreq + 1
        /\ UNCHANGED <<store, uploadDir, shotsDir, veoDir, eavsDir>>
        /\ StageFrame

\* await run(FFMPEG_BIN, [... -i videoPath ... wavPath]) settles
TranscribeAudioExtracted(r) ==
    LET rq == req[r]
        present == rq.snap[rq.idx].file.path \in uploadDir
    IN  /\ rq.pc = "t_ffmpeg"
        /\ \E okRun \in BOOLEAN :
              Settle(r,
                 IF present /\ okRun
                 THEN [Call(rq, "whisper") EXCEPT !.pc = "t_whisper"]
                 ELSE Fail(rq, 500, "ffmpeg exited"))
        /\ UNCHANGED <<store, uploadDir, shotsDir, veoDir, eavsDir, nreq>>
        /\ StageFrame

\* await run(WHISPER_BIN, ...) settles; the rest of the handler
TranscribeWhisperDone(r) ==
    LET rq == req[r]
    IN  /\ rq.pc = "t_whisper"
        /\ \/ /\ Settle(r, Fail(rq, 500, "whisper exited"))
              /\ UNCHANGED store
           \/ \E w \in WhisperOutputs :
                LET t == [provider |-> "whisper.cpp", text |-> w.text,
                          segments |-> w.segments]
                IN  /\ store' = WithTranscript(rq.snap, rq.idx, t)
                    /\ Settle(r, [Ok(rq) EXCEPT !.out = t, !.wrote = TRUE])
        /\ UNCHANGED <<uploadDir, shotsDir, veoDir, eavsDir, nreq>>
        /\ StageFrame

\* ------------------------------------------------ GET /api/screenshot/:id
ScreenshotStart(r) ==
    \E id \in ReqIds :
    LET rq  == NewReq("screenshot", id)
        idx == rq.idx
    IN  /\ CanStart(r)
        /\ Settle(r,
              IF idx = 0 THEN Fail(rq, 404, "Submission not found.")
              ELSE IF store[idx].file.path \notin uploadDir
                   THEN Fail(rq, 404, "Video file missing on disk.")
              ELSE [Call(rq, "ffprobe") EXCEPT !.pc = "s_probe"])
        /\ nreq' = nreq + 1
        /\ UNCHANGED <<store, uploadDir, shotsDir, veoDir, eavsDir>>
        /\ StageFrame

\* ensureMidScreenshot: await run(FFPROBE_BIN, ...) settles and the duration
\* is checked; then ffmpeg is spawned
MidProbeDone(rq, present, okRun, pcNext) ==
    IF present /\ okRun
    THEN [Call(rq, "ffmpeg") EXCEPT !.pc = pcNext]
    ELSE Fail(rq, 500, "ffprobe failed")

ScreenshotProbed(r) ==
    LET rq == req[r]
        present == rq.snap[rq.idx].file.path \in uploadDir
    IN  /\ rq.pc = "s_probe"
        /\ \E okRun \in BOOLEAN :
              Settle(r, MidProbeDone(rq, present, okRun, "s_frame"))
        /\ UNCHANGED <<store, uploadDir, shotsDir, veoDir, eavsDir, nreq>>
        /\ StageFrame

\* ensureMidScreenshot: await run(FFMPEG_BIN, [... pngPath]) settles
ScreenshotFrameDone(r) ==
    LET rq == req[r]
        present == rq.snap[rq.idx].file.path \in uploadDir
    IN  /\ rq.pc = "s_frame"
        /\ \E okRun \in BOOLEAN :
              IF present /\ okRun
              THEN /\ shotsDir' = shotsDir \cup {rq.id}
                   /\ Settle(r, Ok(rq))
              ELSE /\ Settle(r, Fail(rq, 500, "ffmpeg exited"))
                   /\ UNCHANGED shotsDir
        /\ UNCHANGED <<store, uploadDir, veoDir, eavsDir, nreq>>
        /\ StageFrame

\* --------------------------------------------- POST /api/gemini/analyze/:id
RECURSIVE JoinLines(_)
JoinLines(ls) ==
    IF ls = <<>> THEN <<>>
    ELSE IF Len(ls) = 1 THEN ls[1]
    ELSE ls[1] \o <<"\n">> \o JoinLines(Tail(ls))

G_show   == L_SHOW \o <<" ", "B">>
G_break  == L_BREAK \o <<" ", "1", "0", "-", "2", "5", " ", "(", "1", "5", ")">>
G_clip1  == L_CLIP1 \o <<" ", "w", "h", "y", "?">>
G_clip2  == L_CLIP2 \o <<" ", "s", "o">>

\* the texts the generative-language API answers with: the four lines, the
\* four lines without the answer script, nothing
GeminiReplies ==
    << JoinLines(<<G_show, G_break, G_clip1, G_clip2>>),
       JoinLines(<<G_show, G_break, G_clip1>>),
       <<>> >>

\* parseGeminiFourLines(rawText) for each of them
ParsedReplies == [k \in 1..Len(GeminiReplies) |-> parseGeminiFourLines(GeminiReplies[k])]

\* const segments = sub.transcript?.segments || []
SegmentsOf(sub) == IF sub.transcript = NULL THEN <<>> ELSE sub.transcript.segments

\* (variant: any stored transcript will do)
AnalyzeReady_AnyTranscript(sub) == TRUE

\* if (!segments.length) return 400
AnalyzeReady(sub) == Len(SegmentsOf(sub)) > 0

\* (variant: the list is read again just before the write)
WithGemini_Reread(list, idx, g) ==
    LET j == FindIndex(store, list[idx].id)
    IN  IF j = 0 THEN store ELSE SetAt(store, j, [store[j] EXCEPT !.gemini = g])

\* (variant: a new analysis also drops the clips made from the old one)
WithGemini_ClearsVeo(list, idx, g) ==
    SetAt(list, idx, [list[idx] EXCEPT !.gemini = g, !.veo = NULL])

\* sub.gemini = {...}; submissions[idx] = sub; writeSubmissions(submissions)
WithGemini(list, idx, g) == SetAt(list, idx, [list[idx] EXCEPT !.gemini = g])

\* (variant: an unknown id is answered like a validation error)
AnalyzeGate_NotFound400(hasKey, list, idx) ==
    IF ~hasKey THEN [status |-> 500, error |-> "Missing GEMINI_API_KEY (or GOOGLE_API_KEY) in .env"]
    ELSE IF idx = 0 THEN [status |-> 400, error |-> "Submission not found."]
    ELSE IF Len(SegmentsOf(list[idx])) = 0
         THEN [status |-> 400, error |-> "No timestamped transcript found. Run Transcribe first."]
    ELSE [status |-> 0, error |-> ""]

\* the checks of the handler before its first await, in the code's order:
\* the status and error it answers with, or 0 when it goes on
AnalyzeGate(hasKey, list, idx) ==
    IF ~hasKey THEN [status |-> 500, error |-> "Missing GEMINI_API_KEY (or GOOGLE_API_KEY) in .env"]
    ELSE IF idx = 0 THEN [status |-> 404, error |-> "Submission not found."]
    ELSE IF ~AnalyzeReady(list[idx])
         THEN [status |-> 400, error |-> "No timestamped transcript found. Run Transcribe first."]
    ELSE [status |-> 0, error |-> ""]

AnalyzeStart(r) ==
    \E id \in ReqIds :
    LET rq   == NewReq("analyze", id)
        gate == AnalyzeGate(env.apiKey, store, rq.idx)
    IN  /\ CanStart(r)
        /\ Settle(r,
              IF gate.status # 0 THEN Fail(rq, gate.status, gate.error)
              ELSE [Call(rq, "gemini") EXCEPT !.pc = "g_fetch"])
        /\ nreq' = nreq + 1
        /\ UNCHANGED <<store, uploadDir, shotsDir, veoDir, eavsDir>>
        /\ StageFrame

\* await callGeminiGenerateContent(...) settles; the rest of the handler
AnalyzeFetched(r) ==
    LET rq == req[r]
    IN  /\ rq.pc = "g_fetch"
        /\ \/ /\ Settle(r, Fail(rq, 500, "Gemini error"))
              /\ UNCHANGED store
           \/ \E k \in 1..Len(GeminiReplies) :
                \* rawText is kept as the index of the reply in GeminiReplies
                LET g == [model |-> "gemini-2.5-flash",
                          rawText |-> k, parsed |-> ParsedReplies[k]]
                IN  /\ store' = WithGemini(rq.snap, rq.idx, g)
                    /\ Settle(r, [Ok(rq) EXCEPT !.out = g, !.wrote = TRUE])
        /\ UNCHANGED <<uploadDir, shotsDir, veoDir, eavsDir, nreq>>
        /\ StageFrame

\* ------------------------------------------------ POST /api/veo/generate/:id
\* a variant of the precondition that asks for the question script only
VeoReady_QuestionOnly(sub) ==
    /\ sub.gemini # NULL
    /\ sub.gemini.parsed.clip1Question # <<>>

\* !parsed?.clip1Question || !parsed?.clip2Answer is false
VeoReady(sub) ==
    /\ sub.gemini # NULL
    /\ sub.gemini.parsed.clip1Question # <<>>
    /\ sub.gemini.parsed.clip2Answer # <<>>

\* sub.veo = {...}; submissions[idx] = sub; writeSubmissions(submissions)
WithVeo(list, idx, v) == SetAt(list, idx, [list[idx] EXCEPT !.veo = v])

VeoStart(r) ==
    \E id \in ReqIds :
    LET rq  == NewReq("veo", id)
        idx == rq.idx
    IN  /\ CanStart(r)
        /\ Settle(r,
              IF idx = 0 THEN Fail(rq, 404, "Submission not found.")
              ELSE IF ~VeoReady(store[idx])
                   THEN Fail(rq, 400, "Missing Gemini clips. Run Analyze with Gemini first.")
              ELSE [Call(rq, "ffprobe") EXCEPT !.pc = "v_probe"])
        /\ nreq' = nreq + 1
        /\ UNCHANGED <<store, uploadDir, shotsDir, veoDir, eavsDir>>
        /\ StageFrame

VeoProbed(r) ==
    LET rq == req[r]
        present == rq.snap[rq.idx].file.path \in uploadDir
    IN  /\ rq.pc = "v_probe"
        /\ \E okRun \in BOOLEAN :
              Settle(r, MidProbeDone(rq, present, okRun, "v_frame"))
        /\ UNCHANGED <<store, uploadDir, shotsDir, veoDir, eavsDir, nreq>>
        /\ StageFrame

\* generateVeoClip up to its first await: getGenAIClient() throws without a
\* key, otherwise ai.models.generateVideos is called. The call's progress is
\* kept with the request: the clip asked for, the polls made and the time
\* waited so far, and what the operation last reported
VeoRequestClip(rq, n) ==
    IF ~env.apiKey THEN Fail(rq, 500, "Missing GOOGLE_API_KEY (or GEMINI_API_KEY) in .env")
    ELSE [Call(rq, "veo") EXCEPT !.pc = "v_gen",
                                 !.aux = [clip |-> n, polls |-> 0, waitedMs |-> 0,
                                          op |-> "none"]]

\* the screenshot is written and read back; clip 1 is requested
VeoFrameDone(r) ==
    LET rq == req[r]
        present == rq.snap[rq.idx].file.path \in uploadDir
    IN  /\ rq.pc = "v_frame"
        /\ \E okRun \in BOOLEAN :
              IF present /\ okRun
              THEN /\ shotsDir' = shotsDir \cup {rq.id}
                   /\ Settle(r, VeoRequestClip(rq, 1))
              ELSE /\ Settle(r, Fail(rq, 500, "ffmpeg exited"))
                   /\ UNCHANGED shotsDir
        /\ UNCHANGED <<store, uploadDir, veoDir, eavsDir, nreq>>
        /\ StageFrame

\* setTimeout(r, 10000)
PollDelayMs == 10000

\* what generateVideos / getVideosOperation can come to: the call throws, or
\* returns an operation that is not done, or done with or without a video
VeoAnswers == {"throws", "pending", "done_video", "done_empty"}

\* a variant of the loop that also asks again when the operation is done
\* without a video
KeepsPolling_UntilVideo(answer) == answer \in {"pending", "done_empty"}

\* while (!operation.done)
KeepsPolling(answer) == answer = "pending"

\* generateVideos / getVideosOperation settles; the loop condition is
\* evaluated, and past the loop the video file is looked up
VeoOperation(r) ==
    LET rq == req[r]
    IN  /\ rq.pc \in {"v_gen", "v_poll"}
        /\ \E answer \in VeoAnswers :
              LET rq1 == [rq EXCEPT !.aux.op = answer]
              IN  /\ KeepsPolling(answer) => rq.aux.polls < MaxPolls
                  /\ Settle(r,
                       IF answer = "throws" THEN Fail(rq1, 500, "Veo error")
                       ELSE IF KeepsPolling(answer) THEN [rq1 EXCEPT !.pc = "v_wait"]
                       ELSE IF answer = "done_empty"
                            THEN Fail(rq1, 500, "Veo returned no video file.")
                       ELSE [rq1 EXCEPT !.pc = "v_dl"])
        /\ UNCHANGED <<store, uploadDir, shotsDir, veoDir, eavsDir, nreq>>
        /\ StageFrame

\* the timer fires and getVideosOperation is called
VeoTimer(r) ==
    LET rq == req[r]
    IN  /\ rq.pc = "v_wait"
        /\ Settle(r, [Call(rq, "veo") EXCEPT !.pc = "v_poll",
                                             !.aux.polls = @ + 1,
                                             !.aux.waitedMs = @ + PollDelayMs])
        /\ UNCHANGED <<store, uploadDir, shotsDir, veoDir, eavsDir, nreq>>
        /\ StageFrame

\* (variant: sub.veo is written once clip 1 is there, and not again)
VeoWritesAfter_FirstClip(n) == n = 1

\* (variant: sub.veo is also written as soon as clip 1 is there)
VeoWritesAfter_EachClip(n) == n \in {1, 2}

\* writeSubmissions is reached once clip n is downloaded: not after clip 1,
\* only after clip 2
VeoWritesAfter(n) == n = 2

\* ai.files.download settles; after clip 1 clip 2 is requested, after clip 2
\* the record is written
VeoDownloaded(r) ==
    LET rq == req[r]
        n  == rq.aux.clip
    IN  /\ rq.pc = "v_dl"
        /\ \/ /\ Settle(r, Fail(rq, 500, "download failed"))
              /\ UNCHANGED <<store, veoDir>>
           \/ LET v   == [clip1Url |-> <<rq.id, 1>>, clip2Url |-> <<rq.id, 2>>]
                  w   == VeoWritesAfter(n)
                  new == IF w THEN WithVeo(rq.snap, rq.idx, v) ELSE store
                  rqw == [rq EXCEPT !.wrote = @ \/ w]
              IN  /\ veoDir' = veoDir \cup {<<rq.id, n>>}
                  /\ store' = new
                  /\ Settle(r, IF n = 1 THEN VeoRequestClip(rqw, 2)
                                         ELSE [Ok(rqw) EXCEPT !.out = v])
        /\ UNCHANGED <<uploadDir, shotsDir, eavsDir, nreq>>
        /\ StageFrame

\* ----------------------------------------------------------- POST /api/splice
\* the timestamp field of the body: absent (NULL), a multipart/JSON string,
\* or a JSON number
TsStr(chars) == [kind |-> "str", chars |-> chars]
TsNum(n)     == [kind |-> "num", n |-> n]

\* !timestamp
TsFalsy(ts) ==
    \/ ts = NULL
    \/ ts.kind = "str" /\ ts.chars = <<>>
    \/ ts.kind = "num" /\ ts.n = 0

Digits == <<"0","1","2","3","4","5","6","7","8","9">>

RECURSIVE NatToChars(_)
NatToChars(n) == IF n < 10 THEN <<Digits[n + 1]>>
                 ELSE NatToChars(n \div 10) \o <<Digits[(n % 10) + 1]>>

\* String(timestamp)
TsString(ts) ==
    IF ts.kind = "str" THEN ts.chars
    ELSE IF ts.n < 0 THEN <<"-">> \o NatToChars(0 - ts.n) ELSE NatToChars(ts.n)

\* Number.parseInt(s, 10): leading white space, an optional sign, then the
\* longest run of digits; NaN (NullNum) when there is no digit
ParseInt(s) ==
    LET p0   == SkipSpaces(s, 1)
        sign == p0 <= Len(s) /\ s[p0] \in {"-", "+"}
        p1   == IF sign THEN p0 + 1 ELSE p0
        p2   == SkipDigits(s, p1)
        v    == DigitsToNumber(SubSeq(s, p1, p2 - 1))
    IN  IF p2 = p1 THEN NullNum
        ELSE IF sign /\ s[p0] = "-" THEN Num(0 - v) ELSE Num(v)

\* !Number.isFinite(timestampMs) || timestampMs < 0
TsInvalid(parsed) == parsed = NullNum \/ parsed[1] < 0

NoSubmissionId == 0 - 1

\* a variant of the clip selection that accepts each file on its own, from
\* whichever place has it
SpliceClips_PerFile(sub, veoFiles, legacyFiles) ==
    LET pick(n) ==
          IF sub # NULL /\ <<sub.id, n>> \in veoFiles THEN <<"expected", <<sub.id, n>>>>
          ELSE IF n \in legacyFiles THEN <<"legacy", <<0, n>>>>
          ELSE <<>>
    IN  IF pick(1) = <<>> \/ pick(2) = <<>> THEN <<>>
        ELSE <<pick(1)[1], pick(1)[2], pick(2)[2]>>

\* the two clip files the handler settles on: <<>> when none is found
SpliceClips(sub, veoFiles, legacyFiles) ==
    LET tier12 ==
          IF sub = NULL THEN <<>>
          ELSE IF <<sub.id, 1>> \in veoFiles /\ <<sub.id, 2>> \in veoFiles
               THEN <<"expected", <<sub.id, 1>>, <<sub.id, 2>>>>
          ELSE IF /\ sub.veo # NULL
                  /\ sub.veo.clip1Url # <<>> /\ sub.veo.clip2Url # <<>>
                  /\ sub.veo.clip1Url \in veoFiles /\ sub.veo.clip2Url \in veoFiles
               THEN <<"urls", sub.veo.clip1Url, sub.veo.clip2Url>>
          ELSE <<>>
    IN  IF tier12 # <<>> THEN tier12
        ELSE IF 1 \in legacyFiles /\ 2 \in legacyFiles THEN <<"legacy", <<0, 1>>, <<0, 2>>>>
        ELSE <<>>

\* the name diskStorage gives an ad-hoc upload: one no file and no request
\* in flight has
FreshTmp ==
    LET used == {f[2] : f \in {g \in uploadDir : g[1] = "tmp"}}
                   \cup {req[q].in.path[2] : q \in {x \in Slots : req[x].kind = "splice"}}
    IN  <<"tmp", CHOOSE k \in 1..(MaxReqs + 1) : k \notin used /\ \A j \in 1..(k - 1) : j \in used>>

SpliceTimestamps == {NULL, TsStr(<<"5">>), TsStr(<<"-", "1">>)}
SpliceFiles == {NULL, [mimetype |-> "video/mp4", size |-> MAX_BYTES - 1],
                [mimetype |-> "image/png", size |-> 1]}

\* multer, then the handler up to its first await (ffprobe of the original)
SpliceStartWith(r, ts, sid, file) ==
    LET rq     == [NewReq("splice", sid) EXCEPT
                      !.in = [file |-> file, timestamp |-> ts, submissionId |-> sid,
                              path |-> FreshTmp]]
        merr   == MulterError(file)
        path   == FreshTmp
        stored == IF file # NULL /\ merr = "NONE" THEN uploadDir \cup {path} ELSE uploadDir
        parsed == ParseInt(TsString(ts))
        idx    == FindIndex(store, sid)
        sub    == IF sid # NoSubmissionId /\ idx # 0 THEN store[idx] ELSE NULL
        clips  == SpliceClips(sub, veoDir, tempDir)
    IN  /\ CanStart(r)
        /\ nreq' = nreq + 1
        /\ UNCHANGED <<store, shotsDir, veoDir, eavsDir>>
        /\ StageFrame
        /\ IF merr # "NONE"
           THEN /\ Settle(r, Fail(rq, MulterErrorStatus(merr), merr))
                /\ UNCHANGED uploadDir
           ELSE IF TsFalsy(ts)
           THEN /\ Settle(r, Fail(rq, 400, "timestamp is required."))
                /\ uploadDir' = stored \ {path}
           ELSE IF TsInvalid(parsed)
           THEN /\ Settle(r,
                             Fail(rq, 400, "timestamp must be a non-negative integer (ms)."))
                /\ uploadDir' = stored \ {path}
           ELSE IF sid # NoSubmissionId /\ idx = 0
           THEN /\ Settle(r, Fail(rq, 404, "Submission not found."))
                /\ uploadDir' = stored
           ELSE IF sid # NoSubmissionId /\ sub.file.path \notin uploadDir
           THEN /\ Settle(r, Fail(rq, 404, "Stored video file not found."))
                /\ uploadDir' = stored
           ELSE IF sid = NoSubmissionId /\ file = NULL
           THEN /\ Settle(r,
                             Fail(rq, 400, "Either upload a video or provide a submissionId."))
                /\ uploadDir' = stored
           ELSE LET rq1  == rq
                    main == IF sid # NoSubmissionId THEN sub.file.path ELSE path
                IN  /\ uploadDir' = stored
                    /\ Settle(r,
                         IF clips = <<>>
                         THEN Fail(rq1, 500, "AI clips not found.")
                         ELSE [Call(rq1, "ffprobe") EXCEPT
                                  !.pc = "x_probe",
                                  !.aux = [main |-> main, clips |-> clips,
                                           timestampMs |-> parsed[1]]])

SpliceStart(r) ==
    \E ts \in SpliceTimestamps, sid \in {NoSubmissionId} \cup ReqIds, file \in SpliceFiles :
        SpliceStartWith(r, ts, sid, file)

\* catch (err): if (req.file?.path) try { fs.unlinkSync(req.file.path) } catch {}
SpliceCatch(rq, files) == IF rq.in.file # NULL THEN files \ {rq.in.path} ELSE files

\* probeVideoProps settles; the three hasAudioStream probes (which never
\* throw) follow, then ffmpeg is spawned with the filter graph
SpliceProbed(r) ==
    LET rq == req[r]
        present == rq.aux.main \in uploadDir
    IN  /\ rq.pc = "x_probe"
        /\ \E okRun \in BOOLEAN :
              IF present /\ okRun
              THEN /\ Settle(r, [Call(rq, "ffmpeg") EXCEPT !.pc = "x_ffmpeg"])
                   /\ UNCHANGED uploadDir
              ELSE /\ Settle(r, Fail(rq, 500, "ffprobe failed"))
                   /\ uploadDir' = SpliceCatch(rq, uploadDir)
        /\ UNCHANGED <<store, shotsDir, veoDir, eavsDir, nreq>>
        /\ StageFrame

\* await run(FFMPEG_BIN, args) settles; the rest of the handler
SpliceEncoded(r) ==
    LET rq == req[r]
        present == rq.aux.main \in uploadDir
    IN  /\ rq.pc = "x_ffmpeg"
        /\ \E okRun \in BOOLEAN :
              IF present /\ okRun
              THEN /\ eavsDir' = eavsDir + 1
                   \* if (!submissionId && req.file?.path) unlink
                   /\ uploadDir' = IF rq.in.submissionId = NoSubmissionId
                                   THEN SpliceCatch(rq, uploadDir) ELSE uploadDir
                   /\ Settle(r,
                                [Ok(rq) EXCEPT !.out = [outputFileName |-> eavsDir + 1]])
              ELSE /\ Settle(r, Fail(rq, 500, "ffmpeg exited"))
                   /\ uploadDir' = SpliceCatch(rq, uploadDir)
                   /\ UNCHANGED eavsDir
        /\ UNCHANGED <<store, shotsDir, veoDir, nreq>>
        /\ StageFrame

\* ------------------------------------------------------------ specification
ProcessedSubmission ==
    [id |-> 1, prompt |-> S_goal,
         transcript |-> [provider |-> "whisper.cpp", text |-> S_hi,
                         segments |-> <<[startMs |-> 1000, endMs |-> 3500, text |-> S_hi]>>],
         gemini |-> [model |-> "gemini-2.5-flash", rawText |-> 1, parsed |-> ParsedReplies[1]],
         veo |-> [clip1Url |-> <<1, 1>>, clip2Url |-> <<1, 2>>],
         file |-> [path |-> <<"sub", 1>>, sizeBytes |-> MAX_BYTES - 1, mimetype |-> "video/mp4"]]

InitRest ==
    /\ tempDir \in {{}, {1, 2}}
    /\ eavsDir = 0
    /\ skill = SkillOff
    /\ env \in {[apiKey |-> TRUE, whisperModel |-> TRUE],
               [apiKey |-> FALSE, whisperModel |-> TRUE],
               [apiKey |-> TRUE, whisperModel |-> FALSE]}
    /\ req = [r \in Slots |-> IdleReq]
    /\ nreq = 0
    /\ probe = NULL

Init ==
    /\ store = <<>>
    /\ uploadDir = {}
    /\ shotsDir = {}
    /\ veoDir = {}
    /\ nextId = 0
    /\ InitRest

\* the server starts on the data directory an earlier run left behind: one
\* submission that was uploaded and nothing more
InitUploaded ==
    /\ store = <<NewSubmission(1, <<"sub", 1>>, S_goal,
                               [mimetype |-> "video/mp4", size |-> MAX_BYTES - 1])>>
    /\ uploadDir = {<<"sub", 1>>}
    /\ shotsDir = {}
    /\ veoDir = {}
    /\ nextId = 1
    /\ InitRest

\* ... or one submission taken through upload, transcription, analysis and
\* clip generation
InitProcessed ==
    /\ store = <<ProcessedSubmission>>
    /\ uploadDir = {<<"sub", 1>>}
    /\ shotsDir = {1}
    /\ veoDir = {<<1, 1>>, <<1, 2>>}
    /\ nextId = 1
    /\ InitRest

Next ==
    \/ \E r \in Slots : Upload(r)
    \/ \E r \in Slots : ListSubmissions(r)
    \/ \E r \in Slots : Health(r)
    \/ \E r \in Slots : TranscribeStart(r)
    \/ \E r \in Slots : TranscribeAudioExtracted(r)
    \/ \E r \in Slots : TranscribeWhisperDone(r)
    \/ \E r \in Slots : ScreenshotStart(r)
    \/ \E r \in Slots : ScreenshotProbed(r)
    \/ \E r \in Slots : ScreenshotFrameDone(r)
    \/ \E r \in Slots : AnalyzeStart(r)
    \/ \E r \in Slots : AnalyzeFetched(r)
    \/ \E r \in Slots : VeoStart(r)
    \/ \E r \in Slots : VeoProbed(r)
    \/ \E r \in Slots : VeoFrameDone(r)
    \/ \E r \in Slots : VeoOperation(r)
    \/ \E r \in Slots : VeoTimer(r)
    \/ \E r \in Slots : VeoDownloaded(r)
    \/ \E r \in Slots : SpliceStart(r)
    \/ \E r \in Slots : SpliceProbed(r)
    \/ \E r \in Slots : SpliceEncoded(r)
    \/ RemoveUploadedFile

\* S_hi / GeminiReplies / ... are defined with the handlers that produce them
Spec == (Init \/ InitUploaded \/ InitProcessed) /\ [][Next]_vars

\* ============================================================== POST /api/upload
\* the upload route alone, over every kind of file and prompt
UploadFilesAll ==
    {NULL} \cup [mimetype : {"video/mp4", "video/webm", "video/quicktime", "image/png"},
                 size : {1, MAX_BYTES - 1, MAX_BYTES, MAX_BYTES + 1}]
UploadPromptsAll == {<<>>, <<" ">>, S_goal, <<" ", "g", " ">>}

UploadAny(r) ==
    \E file \in UploadFilesAll, prompt \in UploadPromptsAll : UploadWith(r, file, prompt)

NextUpload ==
    \/ \E r \in Slots : UploadAny(r)
    \/ \E r \in Slots : ListSubmissions(r)

SpecUpload == Init /\ [][NextUpload]_vars

\* the prompt has a character that is not white space
PromptGiven(prompt) == \E i \in 1..Len(prompt) : prompt[i] \notin {" ", "\t", "\r", "\n"}

\* C1: an upload of an allowed type, under 25 MB and with a non-blank prompt
\* adds exactly one submission, at the head of the list, whose file.sizeBytes
\* is the uploaded size; an upload of 25 MB or more, or of another type, is
\* answered 413 or 400, adds no submission and leaves no file in uploads/.
C1_UploadContract ==
    [][LET a == Last'
           f == a.in.file
       IN  a.kind = "upload" /\ f # NULL =>
             /\ ( /\ f.mimetype \in {"video/mp4", "video/webm", "video/quicktime"}
                  /\ f.size < 26214400
                  /\ PromptGiven(a.in.prompt) )
                => /\ a.status = 200
                   /\ Len(store') = Len(store) + 1
                   /\ SubSeq(store', 2, Len(store')) = store
                   /\ store'[1] = a.out
                   /\ store'[1].id \notin Ids(store)
                   /\ store'[1].file.sizeBytes = f.size
                   /\ store'[1].file.sizeBytes < 26214400
                   /\ store'[1].file.path \in uploadDir'
             /\ ( \/ f.size >= 26214400
                  \/ f.mimetype \notin {"video/mp4", "video/webm", "video/quicktime"} )
                => /\ a.status \in {400, 413}
                   /\ store' = store
                   /\ uploadDir' = uploadDir
      ]_vars

\* an accepted upload just under the limit, stored behind an earlier one
C1_Witness ==
    /\ Last.kind = "upload" /\ Last.status = 200
    /\ Last.in.file.size = MAX_BYTES - 1
    /\ Len(store) = 2
    /\ store[1].file.sizeBytes = MAX_BYTES - 1

\* ===================================================== the pipeline routes
\* facts about a stored submission, stated on the record itself
HasText(t) == t # NULL /\ \E i \in 1..Len(t.text) : t.text[i] \notin {" ", "\t", "\r", "\n"}
NoSegments(sub) == sub.transcript = NULL \/ Len(sub.transcript.segments) = 0
BothScripts(sub) ==
    /\ sub.gemini # NULL
    /\ Len(sub.gemini.parsed.clip1Question) > 0
    /\ Len(sub.gemini.parsed.clip2Answer) > 0

StageKinds == {"transcribe", "analyze", "veo"}
PerSubmissionKinds == {"transcribe", "screenshot", "analyze", "veo", "splice"}

E_RunTranscribe == "No timestamped transcript found. Run Transcribe first."
E_MissingKey == "Missing GEMINI_API_KEY (or GOOGLE_API_KEY) in .env"

\* C2: a transcribe request on a submission whose stored transcript text is
\* non-blank is answered at once with that transcript and cached = true, runs
\* no binary and leaves the store as it is.
C2_CachedTranscript ==
    [][LET a == Last'
       IN  (a.kind = "transcribe" /\ a.idx # 0 /\ HasText(a.snap[a.idx].transcript)) =>
             /\ a.status = 200
             /\ a.cached
             /\ a.out = a.snap[a.idx].transcript
             /\ a.calls = {}
             /\ ~a.wrote
             /\ a.snap = store
             /\ store' = store
      ]_vars

\* a cached answer was given
C2_Witness ==
    /\ Last.kind = "transcribe" /\ Last.status = 200 /\ Last.cached
    /\ Last.out.text = S_hi
    /\ store[Last.idx].transcript = Last.out

\* the submission named by the answered request, as the store holds it now
Stored(a) == store[FindIndex(store, a.id)]

\* what an analyze request on a submission without segments leaves behind
C3_NoEffect(a) ==
    /\ a.status # 200
    /\ "gemini" \notin a.calls
    /\ store = a.before
    /\ a.id \in Ids(store)
    /\ Stored(a).gemini = NULL

\* C3 as claimed: analyze on a submission without transcript segments fails
\* with the 'run Transcribe first' error, calls no API, leaves gemini unset
\* and the store unchanged.
C3_Original ==
    LET a == Last
    IN  (a.kind = "analyze" /\ a.idx # 0 /\ NoSegments(a.snap[a.idx])) =>
            /\ a.error = E_RunTranscribe
            /\ C3_NoEffect(a)

\* C3 (amended): analyze on a submission without transcript segments fails,
\* with the 'run Transcribe first' error (400) when an API key is configured
\* and with the missing-key error (500) when none is; in both cases it calls
\* no API, leaves gemini unset and the store unchanged.
C3_Amended ==
    LET a == Last
    IN  (a.kind = "analyze" /\ a.idx # 0 /\ NoSegments(a.snap[a.idx])) =>
            /\ IF env.apiKey THEN a.status = 400 /\ a.error = E_RunTranscribe
                             ELSE a.status = 500 /\ a.error = E_MissingKey
            /\ C3_NoEffect(a)

\* the 'run Transcribe first' answer on a submission that has no transcript
C3_Witness ==
    /\ Last.kind = "analyze" /\ Last.status = 400 /\ Last.error = E_RunTranscribe
    /\ Last.idx # 0 /\ Last.snap[Last.idx].transcript = NULL
    /\ Stored(Last).gemini = NULL

\* the parts of C4 that do not concern splice: a stage succeeds only on its
\* predecessor's output, fails with an error and without a write otherwise,
\* and the stored records stay consistent
C4_Stages ==
    LET a == Last'
    IN  /\ (a.kind = "analyze" /\ a.status = 200) => ~NoSegments(a.snap[a.idx])
        /\ (a.kind = "veo" /\ a.status = 200) => BothScripts(a.snap[a.idx])
        /\ (a.kind = "analyze" /\ a.idx # 0 /\ NoSegments(a.snap[a.idx])) =>
              a.status \in {400, 500} /\ a.error # "" /\ store' = store
        /\ (a.kind = "veo" /\ a.idx # 0 /\ ~BothScripts(a.snap[a.idx])) =>
              a.status = 400 /\ a.error # "" /\ store' = store /\ veoDir' = veoDir
        /\ \A i \in 1..Len(store') :
              /\ store'[i].veo # NULL => BothScripts(store'[i])
              /\ store'[i].gemini # NULL => ~NoSegments(store'[i])

\* a splice for a submissionId that went through
SpliceById(a) == a.kind = "splice" /\ a.status = 200 /\ a.in.submissionId # NoSubmissionId

\* C4 as claimed: ... and splice for a submissionId succeeds only with that
\* submission's generated clips.
C4_Original ==
    [][/\ C4_Stages
       /\ SpliceById(Last') => {<<Last'.id, 1>>, <<Last'.id, 2>>} \subseteq veoDir'
      ]_vars

\* C5 as claimed: a submission in the stored list is never removed, whatever
\* requests follow and however they interleave.
C5_NeverRemoved == [][Ids(store) \subseteq Ids(store')]_vars

\* the record a stage handler puts in place of the one it read
OwnChange(a) ==
    CASE a.kind = "transcribe" -> [a.snap[a.idx] EXCEPT !.transcript = a.out]
      [] a.kind = "analyze"    -> [a.snap[a.idx] EXCEPT !.gemini = a.out]
      [] a.kind = "veo"        -> [a.snap[a.idx] EXCEPT !.veo = a.out]

C7_FailureLeavesStore ==
    [][LET a == Last'
       IN  (a.kind \in PerSubmissionKinds /\ a.status # 200) =>
             /\ store' = store
             /\ ~a.wrote
      ]_vars

\* the analysis call failed upstream and the transcript is still stored
C7_Witness ==
    /\ Last.kind = "analyze" /\ Last.status = 500 /\ "gemini" \in Last.calls
    /\ HasText(Stored(Last).transcript)
    /\ Stored(Last).gemini = NULL

\* a per-submission request that names an id the store does not hold
UnknownId(a) ==
    /\ a.kind \in PerSubmissionKinds
    /\ a.idx = 0
    /\ a.kind = "splice" => a.in.submissionId # NoSubmissionId

\* C8 as claimed: such a request is answered 404, in every configuration,
\* calls nothing and leaves the store unchanged.
C8_Original ==
    UnknownId(Last) => Last.status = 404 /\ Last.calls = {} /\ store = Last.before

\* a timestamp field made of one or more decimal digits
DigitString(ts) ==
    /\ ts # NULL
    /\ ts.kind = "str"
    /\ Len(ts.chars) > 0
    /\ \A i \in 1..Len(ts.chars) : ts.chars[i] \in {"0","1","2","3","4","5","6","7","8","9"}

\* C8 (amended): such a request is answered with ok:false, calls no binary or
\* API and leaves the store unchanged.  The status is 404, except that
\* analyze answers 500 when no API key is configured and splice answers 400 or
\* 413 when its upload is refused and 400 when its timestamp is missing or
\* not a non-negative integer.
C8_Amended ==
    LET a == Last
        f == a.in.file
    IN  UnknownId(a) =>
          /\ a.calls = {}
          /\ store = a.before
          /\ a.status =
               IF a.kind = "analyze" /\ ~env.apiKey THEN 500
               ELSE IF a.kind = "splice" /\ f # NULL /\ f.mimetype # "video/mp4" THEN 400
               ELSE IF a.kind = "splice" /\ f # NULL /\ f.size >= 26214400 THEN 413
               ELSE IF a.kind = "splice" /\ ~DigitString(a.in.timestamp) THEN 400
               ELSE 404

\* analyze answered 404 for an id the store does not hold
C8_Witness ==
    /\ Last.kind = "analyze" /\ Last.idx = 0 /\ Last.status = 404
    /\ Last.id \notin Ids(store)

\* the request reaches the point where the handler needs the video file
NeedsFile(a) ==
    /\ a.idx # 0
    /\ CASE a.kind = "transcribe" -> ~HasText(a.snap[a.idx].transcript)
         [] a.kind = "screenshot" -> TRUE
         [] a.kind = "veo"        -> BothScripts(a.snap[a.idx])
         [] a.kind = "splice"     -> DigitString(a.in.timestamp) /\ a.in.file = NULL
         [] OTHER                 -> FALSE

\* C9 as claimed: a request for a stored submission whose video file is
\* missing from disk is answered 404 on every route that needs the file.
C9_MissingFile404 ==
    (Last.kind \in PerSubmissionKinds /\ Last.gone /\ NeedsFile(Last)) => Last.status = 404

\* ============================================ parseGeminiFourLines on replies
\* The replies the prompt asks the model for: the four labelled lines, in any
\* order, with the labels in either case, laid out with or without blank
\* lines, indentation and carriage returns.
LowerChar(c) ==
    IF \E i \in 1..26 : UpperLetters[i] = c
    THEN LowerLetters[CHOOSE i \in 1..26 : UpperLetters[i] = c]
    ELSE c

ToLowerCase(s) == [i \in 1..Len(s) |-> LowerChar(s[i])]

Cased(label, case) == IF case = "lower" THEN ToLowerCase(label) ELSE label

V_show  == <<"D", "r", " ", "W", "h", "o">>
V_clip1 == <<"w", "h", "y", "?">>
V_clip2 == <<"s", "o", " ", "I", "t">>

\* a number as the reply writes it, optionally with a leading zero
Written(n, pad) == (IF pad THEN <<"0">> ELSE <<>>) \o NatToChars(n)

\* the text after "LONGEST_BREAK_MS:", as "a-b (c)" or with looser spacing
BreakText(p) ==
    LET a == Written(p.a, p.pad)
        b == Written(p.b, FALSE)
        c == Written(p.c, FALSE)
    IN  IF p.loose THEN a \o <<" ", "-", " ">> \o b \o <<" ", " ", "(">> \o c \o <<")">>
                   ELSE <<" ">> \o a \o <<"-">> \o b \o <<" ", "(">> \o c \o <<")">>

\* the four labelled lines, numbered 1..4
ReplyLine(p, k) ==
    CASE k = 1 -> Cased(L_SHOW, p.case) \o <<" ">> \o V_show
      [] k = 2 -> Cased(L_BREAK, p.case) \o BreakText(p)
      [] k = 3 -> Cased(L_CLIP1, p.case) \o <<" ">> \o V_clip1
      [] k = 4 -> Cased(L_CLIP2, p.case) \o V_clip2 \o <<" ">>

\* the lines laid out as a text
RECURSIVE Layout(_, _)
Layout(ls, layout) ==
    IF ls = <<>> THEN <<>>
    ELSE LET line == CASE layout = "plain" -> ls[1] \o (IF Len(ls) > 1 THEN <<"\n">> ELSE <<>>)
                       [] layout = "crlf"  -> <<" ", " ">> \o ls[1] \o <<"\r", "\n">>
                       [] layout = "blank" -> ls[1] \o <<"\n", " ", "\n">>
         IN  line \o Layout(Tail(ls), layout)

\* the reply with its lines in the order p.order; without the break line when
\* withBreak is false
ReplyText(p, withBreak) ==
    LET ks == SelectSeq(p.order, LAMBDA k : withBreak \/ k # 2)
    IN  Layout([i \in 1..Len(ks) |-> ReplyLine(p, ks[i])], p.layout)

Orders == {o \in [1..4 -> 1..4] : \A i, j \in 1..4 : i # j => o[i] # o[j]}

ReplyParams ==
    [order : Orders, case : {"upper", "lower"}, layout : {"plain", "crlf", "blank"},
     loose : BOOLEAN, pad : BOOLEAN,
     a : {0, 5, MaxBreakMs}, b : {MaxBreakMs, 250}, c : {15}]

\* a reply has been drawn and is about to be parsed
InitParse ==
    /\ store = <<>>
    /\ uploadDir = {}
    /\ shotsDir = {}
    /\ veoDir = {}
    /\ tempDir = {}
    /\ eavsDir = 0
    /\ skill = SkillOff
    /\ env = [apiKey |-> TRUE, whisperModel |-> TRUE]
    /\ req = [r \in Slots |-> IdleReq]
    /\ nreq = 0
    /\ nextId = 0
    /\ \E p \in ReplyParams : probe = [stage |-> "drawn", p |-> p, full |-> NULL, noBreak |-> NULL]

ProbeFrame ==
    UNCHANGED <<store, uploadDir, shotsDir, veoDir, tempDir, eavsDir, env, req, nreq, nextId, skill>>

\* parseGeminiFourLines(text) on the reply
ParseReply ==
    /\ probe.stage = "drawn"
    /\ probe' = [probe EXCEPT !.stage = "parsed",
                              !.full = parseGeminiFourLines(ReplyText(probe.p, TRUE))]
    /\ ProbeFrame

\* parseGeminiFourLines(text) on the same reply without its break line
ParseReplyWithoutBreak ==
    /\ probe.stage = "parsed"
    /\ probe' = [probe EXCEPT !.stage = "both",
                              !.noBreak = parseGeminiFourLines(ReplyText(probe.p, FALSE))]
    /\ ProbeFrame

NextParse == ParseReply \/ ParseReplyWithoutBreak

SpecParse == InitParse /\ [][NextParse]_vars

\* C10: the reply with the four labelled lines parses to the show name, the
\* three numbers of the break line and the two scripts without their labels;
\* the same reply without the break line parses to a longestBreak of three
\* nulls and the same show name and scripts.
C10_FourLines ==
    /\ probe.stage \in {"parsed", "both"} =>
          /\ probe.full.show = V_show
          /\ probe.full.longestBreak = [breakStartMs    |-> <<probe.p.a>>,
                                        breakEndMs      |-> <<probe.p.b>>,
                                        breakDurationMs |-> <<probe.p.c>>]
          /\ probe.full.clip1Question = V_clip1
          /\ probe.full.clip2Answer = V_clip2
    /\ probe.stage = "both" =>
          /\ probe.noBreak.longestBreak = [breakStartMs    |-> <<>>,
                                           breakEndMs      |-> <<>>,
                                           breakDurationMs |-> <<>>]
          /\ probe.noBreak.show = probe.full.show
          /\ probe.noBreak.clip1Question = probe.full.clip1Question
          /\ probe.noBreak.clip2Answer = probe.full.clip2Answer

\* a reply with lower-case labels, the answer first and the show name last,
\* parsed with and without its break line
C10_Witness ==
    /\ probe.stage = "both"
    /\ probe.p.case = "lower"
    /\ probe.p.order = <<4, 2, 3, 1>>
    /\ probe.p.layout = "crlf"
    /\ probe.full.longestBreak.breakStartMs = <<MaxBreakMs>>
    /\ probe.noBreak.longestBreak.breakStartMs = <<>>
    /\ probe.noBreak.show = V_show

\* ==================================== parseGeminiFourLines on arbitrary text
\* String(rawText || ""): a missing value is parsed as the empty text
RawString(raw) == IF raw = NULL THEN <<>> ELSE raw.chars

\* lines a reply may be made of, each with what it is: which label it carries
\* at its start (if any), the text after the label, the numbers of a
\* well-formed break
ReplyPalette ==
    << [text |-> <<>>,                              label |-> "none",  value |-> <<>>, nums |-> <<>>],
       [text |-> <<" ", "z", "z">>,                 label |-> "none",  value |-> <<>>, nums |-> <<>>],
       [text |-> L_SHOW,                            label |-> "show",  value |-> <<>>, nums |-> <<>>],
       [text |-> ToLowerCase(L_SHOW) \o <<" ", " ">>, label |-> "show", value |-> <<>>, nums |-> <<>>],
       [text |-> G_show,                            label |-> "show",  value |-> <<"B">>, nums |-> <<>>],
       [text |-> G_break,                           label |-> "break", value |-> <<>>, nums |-> <<10, 25, 15>>],
       [text |-> L_BREAK \o <<" ", "1", "-", "2">>, label |-> "break", value |-> <<>>, nums |-> <<>>],
       [text |-> L_BREAK \o <<" ", "x">>,           label |-> "break", value |-> <<>>, nums |-> <<>>],
       [text |-> G_clip1,                           label |-> "clip1", value |-> V_clip1, nums |-> <<>>],
       [text |-> L_CLIP2,                           label |-> "clip2", value |-> <<>>, nums |-> <<>>],
       [text |-> <<"x", " ">> \o G_break,           label |-> "none",  value |-> <<>>, nums |-> <<>>] >>

\* the inputs: no value at all, or up to MaxLines palette lines joined by "\n"
RawInputs ==
    {NULL} \cup {[lines |-> ls] :
                    ls \in UNION {[1..n -> 1..Len(ReplyPalette)] : n \in 0..MaxLines}}

RawOf(input) ==
    IF input = NULL THEN NULL
    ELSE [chars |-> JoinLines([i \in 1..Len(input.lines) |->
                                   ReplyPalette[input.lines[i]].text])]

\* an analyze request that is waiting for the API reply, on a submission that
\* has a transcript, and an input that has been drawn
InitAny ==
    /\ store = <<[ProcessedSubmission EXCEPT !.gemini = NULL, !.veo = NULL]>>
    /\ uploadDir = {<<"sub", 1>>}
    /\ shotsDir = {}
    /\ veoDir = {}
    /\ tempDir = {}
    /\ eavsDir = 0
    /\ skill = SkillOff
    /\ env = [apiKey |-> TRUE, whisperModel |-> TRUE]
    /\ req = [r \in Slots |->
                IF r = 1 THEN [Call(NewReq("analyze", 1), "gemini") EXCEPT !.pc = "g_fetch"]
                         ELSE IdleReq]
    /\ nreq = 1
    /\ nextId = 1
    /\ \E input \in RawInputs :
          probe = [stage |-> "drawn", input |-> input, result |-> NULL]

\* parseGeminiFourLines(rawText) on the input
ParseAny ==
    /\ probe.stage = "drawn"
    /\ probe' = [probe EXCEPT !.stage = "parsed",
                              !.result = parseGeminiFourLines(RawString(RawOf(probe.input)))]
    /\ ProbeFrame

\* the analyze handler from the reply on, the reply being the drawn text
\* (callGeminiGenerateContent always returns a string)
AnalyzeFetchedAny(r) ==
    LET rq     == req[r]
        parsed == parseGeminiFourLines(RawString(RawOf(probe.input)))
        g      == [model |-> "gemini-2.5-flash", rawText |-> probe.input, parsed |-> parsed]
    IN  /\ rq.pc = "g_fetch"
        /\ probe.stage = "drawn"
        /\ probe.input # NULL
        /\ store' = WithGemini(rq.snap, rq.idx, g)
        /\ Settle(r, [Ok(rq) EXCEPT !.out = g, !.wrote = TRUE])
        /\ probe' = [probe EXCEPT !.stage = "stored", !.result = parsed]
        /\ UNCHANGED <<uploadDir, shotsDir, veoDir, tempDir, eavsDir, env, nreq, nextId, skill>>

NextAny == ParseAny \/ \E r \in Slots : AnalyzeFetchedAny(r)

SpecAny == InitAny /\ [][NextAny]_vars

\* the palette lines of the input that carry the label, in order
Labelled(input, label) ==
    IF input = NULL THEN <<>>
    ELSE SelectSeq([i \in 1..Len(input.lines) |-> ReplyPalette[input.lines[i]]],
                   LAMBDA l : l.label = label)

\* C11: parseGeminiFourLines returns a record for every input, the missing
\* value and the empty text included; show is "Unknown" when no SHOW line is
\* there or the first one is empty; the three break fields are all numbers or
\* all null; a missing script line gives the empty string; and the analyze
\* handler stores whatever was parsed and answers ok.
C11_ParseTotal ==
    LET res   == probe.result
        shows == Labelled(probe.input, "show")
        brks  == Labelled(probe.input, "break")
        q     == Labelled(probe.input, "clip1")
        ans   == Labelled(probe.input, "clip2")
        lb    == res.longestBreak
    IN  /\ probe.stage \in {"parsed", "stored"} =>
             /\ DOMAIN res = {"show", "longestBreak", "clip1Question", "clip2Answer"}
             /\ DOMAIN lb = {"breakStartMs", "breakEndMs", "breakDurationMs"}
             /\ res.show = IF shows = <<>> \/ shows[1].value = <<>>
                           THEN <<"U", "n", "k", "n", "o", "w", "n">> ELSE shows[1].value
             /\ \/ lb.breakStartMs = <<>> /\ lb.breakEndMs = <<>> /\ lb.breakDurationMs = <<>>
                \/ Len(lb.breakStartMs) = 1 /\ Len(lb.breakEndMs) = 1 /\ Len(lb.breakDurationMs) = 1
             /\ (brks # <<>> /\ brks[1].nums # <<>>) =>
                   <<lb.breakStartMs[1], lb.breakEndMs[1], lb.breakDurationMs[1]>> = brks[1].nums
             /\ (brks = <<>> \/ brks[1].nums = <<>>) => lb.breakStartMs = <<>>
             /\ q = <<>> => res.clip1Question = <<>>
             /\ ans = <<>> => res.clip2Answer = <<>>
             /\ q # <<>> => res.clip1Question = q[1].value
        /\ probe.stage = "stored" =>
             /\ Last.kind = "analyze" /\ Last.status = 200 /\ Last.error = ""
             /\ store[1].gemini # NULL
             /\ store[1].gemini.parsed = res
             /\ store[1].gemini.rawText = probe.input

\* the empty reply was parsed to the defaults, stored, and answered ok
C11_Witness ==
    /\ probe.stage = "stored"
    /\ probe.input = [lines |-> <<>>]
    /\ Last.status = 200
    /\ store[1].gemini.parsed.show = S_Unknown
    /\ store[1].gemini.parsed.clip1Question = <<>>
    /\ store[1].gemini.parsed.longestBreak.breakEndMs = <<>>

\* ============================================== parseSrt on subtitle files
Pad2(n) == <<Digits[(n \div 10) + 1], Digits[(n % 10) + 1]>>
Pad3(n) == <<Digits[(n \div 100) + 1]>> \o Pad2(n % 100)

\* a time of day written as HH:MM:SS,mmm or HH:MM:SS.mmm
Stamp(t, dot) ==
    Pad2(t.h) \o <<":">> \o Pad2(t.m) \o <<":">> \o Pad2(t.s)
      \o <<IF dot THEN "." ELSE ",">> \o Pad3(t.ms)

T_1s   == [h |-> 0, m |-> 0, s |-> 1, ms |-> 0]
T_3s5  == [h |-> 0, m |-> 0, s |-> 3, ms |-> 500]
T_1h   == [h |-> 1, m |-> 2, s |-> 3, ms |-> 4]
T_12h  == [h |-> 12, m |-> 34, s |-> 56, ms |-> 789]
T_max  == [h |-> 99, m |-> 59, s |-> 59, ms |-> 999]

Arrow == <<" ", "-", "-", ">", " ">>

\* the blocks a subtitle file may hold: what is written, and, for a block of
\* the form index / stamps / text lines, its two times and its text lines
SrtBlocks ==
    << [text |-> <<"1", "\n">> \o Stamp(T_1s, FALSE) \o Arrow \o Stamp(T_3s5, FALSE)
                   \o <<"\n", "h", "i", " ", "y", "o">>,
        from |-> T_1s, to |-> T_3s5, lines |-> <<<<"h", "i", " ", "y", "o">>>>],
       [text |-> <<"2", "\n">> \o Stamp(T_1h, TRUE) \o <<"-", "-", ">">> \o Stamp(T_12h, FALSE)
                   \o <<"\n", "a", "\n", "b">>,
        from |-> T_1h, to |-> T_12h, lines |-> <<<<"a">>, <<"b">>>>],
       [text |-> <<"3", "\r", "\n">> \o Stamp(T_1s, FALSE) \o Arrow \o Stamp(T_max, TRUE)
                   \o <<"\r", "\n", "z", "\r">>,
        from |-> T_1s, to |-> T_max, lines |-> <<<<"z">>>>],
       [text |-> <<"4", "\n">> \o Stamp(T_1s, FALSE) \o Arrow \o Stamp(T_3s5, FALSE),
        from |-> NULL, to |-> NULL, lines |-> <<>>],
       [text |-> <<"5", "\n", "x", "x", "\n">> \o Stamp(T_1s, FALSE) \o Arrow \o Stamp(T_3s5, FALSE),
        from |-> NULL, to |-> NULL, lines |-> <<>>],
       [text |-> <<"6", "\n">> \o Tail(Stamp(T_1s, FALSE)) \o Arrow \o Stamp(T_3s5, FALSE)
                   \o <<"\n", "h", "i">>,
        from |-> NULL, to |-> NULL, lines |-> <<>>],
       [text |-> <<"7">>,
        from |-> NULL, to |-> NULL, lines |-> <<>>] >>

\* what separates two blocks, and ends the file
SrtSeparators == {<<"\n", "\n">>, <<"\n", " ", "\n">>, <<"\r", "\n", "\r", "\n">>}

RECURSIVE SrtFile(_, _)
SrtFile(ks, sep) ==
    IF ks = <<>> THEN <<>> ELSE SrtBlocks[Head(ks)].text \o sep \o SrtFile(Tail(ks), sep)

SrtInputs ==
    [blocks : UNION {[1..n -> 1..Len(SrtBlocks)] : n \in 1..MaxBlocks}, sep : SrtSeparators]

\* a subtitle file has been written by the speech-to-text binary
InitSrt ==
    /\ store = <<>>
    /\ uploadDir = {}
    /\ shotsDir = {}
    /\ veoDir = {}
    /\ tempDir = {}
    /\ eavsDir = 0
    /\ skill = SkillOff
    /\ env = [apiKey |-> TRUE, whisperModel |-> TRUE]
    /\ req = [r \in Slots |-> IdleReq]
    /\ nreq = 0
    /\ nextId = 0
    /\ \E input \in SrtInputs : probe = [stage |-> "drawn", input |-> input, result |-> NULL]

\* parseSrt(srt)
ParseSrtFile ==
    /\ probe.stage = "drawn"
    /\ probe' = [probe EXCEPT !.stage = "parsed",
                              !.result = parseSrt(SrtFile(probe.input.blocks, probe.input.sep))]
    /\ ProbeFrame

NextSrt == ParseSrtFile

SpecSrt == InitSrt /\ [][NextSrt]_vars

\* HH*3600000 + MM*60000 + SS*1000 + mmm
MsOf(t) == t.h * 3600000 + t.m * 60000 + t.s * 1000 + t.ms

\* the segments the blocks of the file stand for, in the order of the blocks
RECURSIVE SegmentsFor(_)
SegmentsFor(ks) ==
    IF ks = <<>> THEN <<>>
    ELSE LET b == SrtBlocks[Head(ks)]
         IN  (IF b.lines = <<>> THEN <<>>
              ELSE <<[startMs |-> MsOf(b.from), endMs |-> MsOf(b.to),
                      text |-> IF Len(b.lines) = 1 THEN b.lines[1]
                               ELSE b.lines[1] \o <<" ">> \o b.lines[2]]>>)
             \o SegmentsFor(Tail(ks))

\* C12: parseSrt returns one segment for every block of the form index /
\* stamps / text lines, with both times in milliseconds and the text lines
\* joined by single spaces, in the order of the blocks; a block with fewer
\* than three lines or without stamps on its second line gives no segment.
C12_ParseSrt ==
    probe.stage = "parsed" => probe.result = SegmentsFor(probe.input.blocks)

\* a file whose first block has no stamps on its second line and whose second
\* block has dotted stamps and two text lines
C12_Witness ==
    /\ probe.stage = "parsed"
    /\ probe.input.blocks = <<5, 2>>
    /\ probe.input.sep = <<"\r", "\n", "\r", "\n">>
    /\ Len(probe.result) = 1
    /\ probe.result[1] = [startMs |-> 3723004, endMs |-> 45296789, text |-> <<"a", " ", "b">>]

\* ================================== spliceWithGeneratedClips: the filter graph
\* durationSeconds: 8 of the generation request; "atrim=0:8" of the graph
ClipMs == 8000

\* the end of a cut that has none (trim=<from> without an end, an anullsrc
\* without atrim)
NoEnd == <<>>

\* Original part A: [0:v]trim=0:ts, and [0:a]atrim=0:ts or anullsrc,atrim=0:ts
PartA(a0, ts) ==
    [video |-> [input |-> 0, from |-> 0, to |-> <<ts>>],
     audio |-> [src |-> IF a0 THEN "input" ELSE "anullsrc", input |-> 0,
                from |-> 0, to |-> <<ts>>]]

\* Original part B: [0:v]trim=ts, and [0:a]atrim=ts or a bare anullsrc
PartB(a0, ts) ==
    [video |-> [input |-> 0, from |-> ts, to |-> NoEnd],
     audio |-> IF a0 THEN [src |-> "input", input |-> 0, from |-> ts, to |-> NoEnd]
                     ELSE [src |-> "anullsrc", input |-> 0, from |-> 0, to |-> NoEnd]]

\* Clip n: [n:v] whole, and [n:a] whole or anullsrc,atrim=0:8
ClipPart(n, an) ==
    [video |-> [input |-> n, from |-> 0, to |-> NoEnd],
     audio |-> IF an THEN [src |-> "input", input |-> n, from |-> 0, to |-> NoEnd]
                     ELSE [src |-> "anullsrc", input |-> n, from |-> 0, to |-> <<ClipMs>>]]

\* [v0][a0][v1][a1][v2][a2][v3][a3]concat=n=4:v=1:a=1
FilterGraph(a0, a1, a2, ts) ==
    <<PartA(a0, ts), ClipPart(1, a1), ClipPart(2, a2), PartB(a0, ts)>>

\* what ffmpeg makes of it.  A cut of an input of length len runs from
\* min(from, len) to min(to, len); silence runs to its atrim end, or without
\* end when it has none
Min2(a, b) == IF a <= b THEN a ELSE b
Max2(a, b) == IF a >= b THEN a ELSE b

StreamMs(st, len) ==
    IF "src" \in DOMAIN st /\ st.src = "anullsrc"
    THEN (IF st.to = NoEnd THEN NoEnd ELSE <<st.to[1] - st.from>>)
    ELSE <<(IF st.to = NoEnd THEN len ELSE Min2(st.to[1], len)) - Min2(st.from, len)>>

\* concat: a segment lasts as long as its longest stream
SegmentMs(seg, lens) ==
    LET v == StreamMs(seg.video, lens[seg.video.input + 1])
        a == StreamMs(seg.audio, lens[seg.audio.input + 1])
    IN  IF v = NoEnd \/ a = NoEnd THEN NoEnd ELSE <<Max2(v[1], a[1])>>

RECURSIVE OutputMs(_, _)
OutputMs(graph, lens) ==
    IF graph = <<>> THEN <<0>>
    ELSE LET h == SegmentMs(Head(graph), lens)
             t == OutputMs(Tail(graph), lens)
         IN  IF h = NoEnd \/ t = NoEnd THEN NoEnd ELSE <<h[1] + t[1]>>

\* an original of D ms to be split at t ms, and which inputs carry audio
SpliceInputs ==
    {i \in [D : {1000 * k : k \in 0..MaxSecs}, t : {500 * j : j \in 0..(2 * MaxSecs)},
            a0 : BOOLEAN, a1 : BOOLEAN, a2 : BOOLEAN] : i.t <= i.D}

InitGraph ==
    /\ store = <<>>
    /\ uploadDir = {}
    /\ shotsDir = {}
    /\ veoDir = {}
    /\ tempDir = {}
    /\ eavsDir = 0
    /\ skill = SkillOff
    /\ env = [apiKey |-> TRUE, whisperModel |-> TRUE]
    /\ req = [r \in Slots |-> IdleReq]
    /\ nreq = 0
    /\ nextId = 0
    /\ \E input \in SpliceInputs : probe = [stage |-> "drawn", input |-> input, result |-> NULL]

\* spliceWithGeneratedClips builds the graph and ffmpeg runs it
BuildGraph ==
    LET i == probe.input
        g == FilterGraph(i.a0, i.a1, i.a2, i.t)
    IN  /\ probe.stage = "drawn"
        /\ probe' = [probe EXCEPT !.stage = "built",
                        !.result = [graph |-> g,
                                    durationMs |-> OutputMs(g, <<i.D, ClipMs, ClipMs>>)]]
        /\ ProbeFrame

NextGraph == BuildGraph

SpecGraph == InitGraph /\ [][NextGraph]_vars

\* C13 as claimed: the output is original 0..t, clip 1, clip 2, original
\* t..D, in that order, and lasts t + 8000 + 8000 + (D - t) ms, whether or
\* not the inputs carry audio.
C13_OutputDuration ==
    LET i == probe.input
        g == probe.result.graph
    IN  probe.stage = "built" =>
          /\ <<g[1].video.input, g[2].video.input, g[3].video.input, g[4].video.input>>
                = <<0, 1, 2, 0>>
          /\ g[1].video.from = 0 /\ g[1].video.to = <<i.t>>
          /\ g[4].video.from = i.t /\ g[4].video.to = <<>>
          /\ probe.result.durationMs = <<i.t + 8000 + 8000 + (i.D - i.t)>>

\* C14 as claimed: a segment whose source has no audio stream gets silence
\* trimmed to its expected duration: t for part A, D - t for part B, 8 s for
\* a clip; no segment gets silence without an end.
C14_SilenceTrimmed ==
    LET i == probe.input
        g == probe.result.graph
        has == <<i.a0, i.a1, i.a2, i.a0>>
        expected == <<i.t, 8000, 8000, i.D - i.t>>
    IN  probe.stage = "built" =>
          \A k \in 1..4 :
             /\ ~has[k] => /\ g[k].audio.src = "anullsrc"
                           /\ g[k].audio.to = <<g[k].audio.from + expected[k]>>
             /\ g[k].audio.src = "anullsrc" => g[k].audio.to # <<>>

\* ====================================================== answer verification
\* The server route the skill and the client call (/api/echo/verify) is not
\* among the source files; its comparison is modelled from its description.
LowerOf(c) ==
    IF \E i \in 1..26 : UpperLetters[i] = c
    THEN LowerLetters[CHOOSE i \in 1..26 : UpperLetters[i] = c]
    ELSE c

IsWordChar(c) == IsDigit(c) \/ \E i \in 1..26 : LowerLetters[i] = c

\* lower-case, then drop everything that is neither letter, digit nor space
RECURSIVE StripPunctuation(_)
StripPunctuation(s) ==
    IF s = <<>> THEN <<>>
    ELSE LET c == LowerOf(Head(s))
         IN  (IF IsWordChar(c) THEN <<c>> ELSE IF IsSpace(c) THEN <<" ">> ELSE <<>>)
             \o StripPunctuation(Tail(s))

\* runs of spaces become one space
RECURSIVE CollapseSpaces(_)
CollapseSpaces(s) ==
    IF Len(s) < 2 THEN s
    ELSE IF s[1] = " " /\ s[2] = " " THEN CollapseSpaces(Tail(s))
    ELSE <<s[1]>> \o CollapseSpaces(Tail(s))

\* (variant: the case is kept)
NormalizeAnswer_KeepCase(s) ==
    LET RECURSIVE Strip(_)
        Strip(t) == IF t = <<>> THEN <<>>
                    ELSE (IF IsWordChar(LowerOf(Head(t))) THEN <<Head(t)>>
                          ELSE IF IsSpace(Head(t)) THEN <<" ">> ELSE <<>>) \o Strip(Tail(t))
    IN  Trim(CollapseSpaces(Strip(s)))

NormalizeAnswer(s) == Trim(CollapseSpaces(StripPunctuation(s)))

\* the words of a normalized text
RECURSIVE WordsOf(_)
WordsOf(s) ==
    IF s = <<>> THEN {}
    ELSE IF \E i \in 1..Len(s) : s[i] = " "
    THEN LET i == CHOOSE k \in 1..Len(s) : s[k] = " " /\ \A j \in 1..(k - 1) : s[j] # " "
         IN  {SubSeq(s, 1, i - 1)} \cup WordsOf(SubSeq(s, i + 1, Len(s)))
    ELSE {s}

\* the share of the expected answer's significant words the user must say
OverlapPercent == 70

\* a significant word: longer than two letters
SignificantWord(w) == Len(w) > 2

VerifyAnswerText(expected, userAnswer) ==
    LET e    == NormalizeAnswer(expected)
        u    == NormalizeAnswer(userAnswer)
        keys == {w \in WordsOf(e) : SignificantWord(w)}
        hits == {w \in keys : w \in WordsOf(u)}
    IN  [correct |-> \/ e = u
                     \/ Cardinality(hits) * 100 >= OverlapPercent * Cardinality(keys)]

\* the words answers are made of, and whether each counts as significant
Vocabulary ==
    << [word |-> <<"p","h","o","t","o","s","y","n","t","h","e","s","i","s">>, key |-> TRUE],
       [word |-> <<"m","i","t","o","c","h","o","n","d","r","i","a">>,         key |-> TRUE],
       [word |-> <<"l","i","g","h","t">>,                                     key |-> TRUE],
       [word |-> <<"i","t">>,                                                 key |-> FALSE],
       [word |-> <<"i","s">>,                                                 key |-> FALSE] >>

\* an answer as it is written or heard: plain, or upper-case with commas,
\* doubled spaces and an exclamation mark
RECURSIVE Spoken(_, _)
Spoken(ws, loud) ==
    IF ws = <<>> THEN (IF loud THEN <<"!", " ">> ELSE <<>>)
    ELSE (IF loud THEN <<" ">> \o ToUpperCase(Vocabulary[Head(ws)].word) \o <<",", " ">>
                  ELSE Vocabulary[Head(ws)].word \o (IF Len(ws) > 1 THEN <<" ">> ELSE <<>>))
         \o Spoken(Tail(ws), loud)

VerifyInputs ==
    [expected : UNION {[1..n -> 1..4] : n \in 1..2},
     user     : UNION {[1..n -> 1..Len(Vocabulary)] : n \in 0..MaxWords},
     loud     : BOOLEAN]

InitVerify ==
    /\ store = <<>>
    /\ uploadDir = {}
    /\ shotsDir = {}
    /\ veoDir = {}
    /\ tempDir = {}
    /\ eavsDir = 0
    /\ skill = SkillOff
    /\ env = [apiKey |-> TRUE, whisperModel |-> TRUE]
    /\ req = [r \in Slots |-> IdleReq]
    /\ nreq = 0
    /\ nextId = 0
    /\ \E input \in VerifyInputs : probe = [stage |-> "drawn", input |-> input, result |-> NULL]

\* the comparison of the user's answer with the expected one
VerifyAnswer ==
    LET i == probe.input
    IN  /\ probe.stage = "drawn"
        /\ probe' = [probe EXCEPT !.stage = "verified",
                        !.result = VerifyAnswerText(Spoken(i.expected, FALSE),
                                                    Spoken(i.user, i.loud))]
        /\ ProbeFrame

NextVerify == VerifyAnswer

SpecVerify == InitVerify /\ [][NextVerify]_vars

\* the vocabulary entries a list of words uses
Used(ws) == {ws[k] : k \in 1..Len(ws)}

\* C15: the answer is judged correct exactly when it is the expected answer
\* up to case, punctuation and spacing, or at least the configured share of
\* the expected answer's significant words occur in it; 'it is
\* photosynthesis' is correct for 'photosynthesis', 'mitochondria' is not.
C15_Verify ==
    LET i    == probe.input
        keys == {k \in Used(i.expected) : Vocabulary[k].key}
        hits == keys \cap Used(i.user)
    IN  probe.stage = "verified" =>
          /\ probe.result.correct =
                (\/ i.expected = i.user
                 \/ Cardinality(hits) * 100 >= 70 * Cardinality(keys))
          /\ (i.expected = <<1>> /\ i.user = <<4, 5>> \o <<1>>) => probe.result.correct
          /\ (i.expected = <<1>> /\ i.user = <<2>>) => ~probe.result.correct

\* 'photosynthesis' was expected, 'MITOCHONDRIA,' was heard and judged wrong
C15_Witness ==
    /\ probe.stage = "verified"
    /\ probe.input.expected = <<1>>
    /\ probe.input.user = <<2>>
    /\ probe.input.loud
    /\ ~probe.result.correct

\* ---------------------------------------------------------------------------
\* The voice skill (skill/lambda/index.js): one Lambda invocation per event of
\* the voice platform; the backend it calls answers as it pleases.
\* ---------------------------------------------------------------------------

U_plain  == <<"p", "a">>
U_padded == <<" ", "p", "a", " ">>
U_blank  == <<" ">>

\* the events the platform sends: request type, intent name, the session
\* attributes' submissionId ("" when absent) and the slot values (<<>> absent)
SkillEvents ==
    [type   : {"LaunchRequest", "IntentRequest"},
     intent : {"", "AnswerIntent", "AMAZON.HelpIntent"},
     attrsSubmissionId : {"", "quiz2"},
     slots  : [Answer : {<<>>, U_plain, U_padded, U_blank},
               Other  : {<<>>, U_padded, U_blank}]]

\* what a fetch of the backend can come to
SessionReplies ==
    {[kind |-> "ok"], [kind |-> "http_error"], [kind |-> "non_json"], [kind |-> "rejected"]}

VerifyReplies ==
    {[kind |-> "ok", correct |-> c, message |-> m] :
        c \in BOOLEAN, m \in {"", "Close enough, well done."}}
    \cup {[kind |-> "http_error"], [kind |-> "non_json"], [kind |-> "rejected"]}

\* say(ssmlOrText, endSession): the speech and whether the session ends
say(text, detail, endSession) ==
    [outputSpeech |-> [text |-> text, detail |-> detail],
     shouldEndSession |-> endSession]

\* a variant of the slot lookup that reads the Answer slot only
getAnswerFromRequest_AnswerOnly(slots) == slots.Answer

\* getAnswerFromRequest(request): the Answer slot when it has a value, else
\* the first other slot whose value is not blank, trimmed
getAnswerFromRequest(slots) ==
    IF slots.Answer # <<>> THEN slots.Answer
    ELSE IF Trim(slots.Other) # <<>> THEN Trim(slots.Other)
    ELSE <<>>

\* the message of the error a failed fetch throws
FetchError(reply) ==
    CASE reply.kind = "http_error" -> "backend error"
      [] reply.kind = "non_json"   -> "non-JSON"
      [] OTHER                     -> "fetch failed"

\* a variant of the spoken verdict that never uses the backend's message
Verdict_DefaultOnly(result) ==
    IF result.correct THEN "That's right!" ELSE "Not quite."

\* result.message || (result.correct ? "That's right!" : "Not quite.")
Verdict(result) ==
    IF result.message # "" THEN result.message
    ELSE IF result.correct THEN "That's right!" ELSE "Not quite."

SkillFree == skill.pc \in {"idle", "done"}

SkillInvoked(e) == [skill EXCEPT !.event = e, !.calls = <<>>, !.reply = NULL]

SkillReturn(sk, response) == [sk EXCEPT !.pc = "done", !.response = response]

SkillFrame ==
    UNCHANGED <<store, uploadDir, shotsDir, veoDir, tempDir, eavsDir, env, req, nreq, nextId, probe>>

\* handler, LaunchRequest branch, up to the fetch inside getSession
HandlerLaunch ==
    \E e \in SkillEvents :
        LET sk == SkillInvoked(e)
        IN  /\ SkillFree
            /\ e.type = "LaunchRequest"
            /\ skill' =
                 IF skill.TEST_SUBMISSION_ID = ""
                 THEN SkillReturn(sk, say("Set TEST_SUBMISSION_ID", "", TRUE))
                 ELSE IF skill.BASE_URL = ""
                 THEN SkillReturn(sk, say("Sorry, couldn't load the quiz.", "Set BASE_URL", TRUE))
                 ELSE [sk EXCEPT !.pc = "l_session",
                                 !.response = NULL,
                                 !.calls = <<[url |-> "/api/echo/session",
                                              submissionId |-> skill.TEST_SUBMISSION_ID,
                                              userAnswer |-> <<>>]>>]
            /\ SkillFrame

\* getSession settles and the launch is answered
GetSessionSettled ==
    \E reply \in SessionReplies :
        /\ skill.pc = "l_session"
        /\ skill' =
             SkillReturn([skill EXCEPT !.reply = reply],
                 IF reply.kind = "ok"
                 THEN say("What's your answer?", "", FALSE)
                 ELSE say("Sorry, couldn't load the quiz.", FetchError(reply), TRUE))
        /\ SkillFrame

\* handler, AnswerIntent branch, up to the fetch inside verifyAnswer
HandlerAnswer ==
    \E e \in SkillEvents :
        LET sk           == SkillInvoked(e)
            submissionId == IF e.attrsSubmissionId # "" THEN e.attrsSubmissionId
                            ELSE skill.TEST_SUBMISSION_ID
            userAnswer   == getAnswerFromRequest(e.slots)
        IN  /\ SkillFree
            /\ e.type # "LaunchRequest"
            /\ e.intent = "AnswerIntent"
            /\ skill' =
                 IF submissionId = ""
                 THEN SkillReturn(sk, say("Open the skill again", "", TRUE))
                 ELSE IF userAnswer = <<>>
                 THEN SkillReturn(sk, say("I didn't catch that. What's your answer?", "", FALSE))
                 ELSE IF skill.BASE_URL = ""
                 THEN SkillReturn(sk, say("Sorry, something went wrong.", "Set BASE_URL", TRUE))
                 ELSE [sk EXCEPT !.pc = "a_verify",
                                 !.response = NULL,
                                 !.calls = <<[url |-> "/api/echo/verify",
                                              submissionId |-> submissionId,
                                              userAnswer |-> Trim(userAnswer)]>>]
            /\ SkillFrame

\* verifyAnswer settles and the verdict is spoken
VerifyAnswerSettled ==
    \E reply \in VerifyReplies :
        /\ skill.pc = "a_verify"
        /\ skill' =
             SkillReturn([skill EXCEPT !.reply = reply],
                 IF reply.kind = "ok"
                 THEN say(Verdict(reply), "", TRUE)
                 ELSE say("Sorry, something went wrong.", FetchError(reply), TRUE))
        /\ SkillFrame

\* handler, any other request
HandlerOther ==
    \E e \in SkillEvents :
        /\ SkillFree
        /\ e.type # "LaunchRequest"
        /\ e.intent # "AnswerIntent"
        /\ skill' = SkillReturn(SkillInvoked(e),
                                say("What's your answer? You can say: the answer is", "", FALSE))
        /\ SkillFrame

InitSkill ==
    /\ store = <<>>
    /\ uploadDir = {}
    /\ shotsDir = {}
    /\ veoDir = {}
    /\ tempDir = {}
    /\ eavsDir = 0
    /\ env = [apiKey |-> TRUE, whisperModel |-> TRUE]
    /\ req = [r \in Slots |-> IdleReq]
    /\ nreq = 0
    /\ nextId = 0
    /\ probe = NULL
    /\ \E base \in {"", "https://backend"}, id \in {"", "quiz1"} :
         skill = [pc |-> "idle", BASE_URL |-> base, TEST_SUBMISSION_ID |-> id,
                  event |-> NULL, calls |-> <<>>, reply |-> NULL, response |-> NULL]

NextSkill ==
    \/ HandlerLaunch
    \/ GetSessionSettled
    \/ HandlerAnswer
    \/ VerifyAnswerSettled
    \/ HandlerOther

SpecSkill == InitSkill /\ [][NextSkill]_vars

\* what the user said: the first slot that holds anything
Utterance(e) == IF e.slots.Answer # <<>> THEN e.slots.Answer ELSE e.slots.Other

Answered == skill.pc = "done"

LaunchAnswered == Answered /\ skill.event.type = "LaunchRequest"

AnswerHeard ==
    /\ Answered
    /\ skill.event.type # "LaunchRequest"
    /\ skill.event.intent = "AnswerIntent"
    /\ Trim(Utterance(skill.event)) # <<>>

SessionValidated ==
    /\ skill.calls = <<[url |-> "/api/echo/session", submissionId |-> "quiz1", userAnswer |-> <<>>]>>
    /\ skill.reply = [kind |-> "ok"]

SpokeError ==
    /\ skill.response.outputSpeech.text \in
          {"Set TEST_SUBMISSION_ID", "Sorry, couldn't load the quiz."}
    /\ skill.response.shouldEndSession

\* the launch half of the skill's contract
LaunchContract ==
    LaunchAnswered =>
        IF SessionValidated
        THEN skill.response = say("What's your answer?", "", FALSE)
        ELSE SpokeError

\* the verdict the claim expects for a backend answer
ExpectedVerdict(reply) ==
    IF reply.message # "" THEN reply.message
    ELSE IF reply.correct THEN "That's right!" ELSE "Not quite."

\* C16 as stated: a launch is answered 'What's your answer?' with the session
\* kept open only after the session endpoint validated the configured id, and
\* with an error and the session ended otherwise; every AnswerIntent with a
\* non-empty utterance is forwarded to the verification endpoint exactly once,
\* the returned message (or the default for its correct flag) is spoken and
\* the session ends.
C16_Original ==
    /\ LaunchContract
    /\ AnswerHeard =>
         /\ Len(skill.calls) = 1
         /\ skill.calls[1].url = "/api/echo/verify"
         /\ skill.calls[1].userAnswer = Trim(Utterance(skill.event))
         /\ skill.reply # NULL /\ skill.reply.kind = "ok"
         /\ skill.response = say(ExpectedVerdict(skill.reply), "", TRUE)

\* C16, amended: the launch half as stated; an AnswerIntent with a non-empty
\* utterance always ends the session, and it is forwarded (trimmed, exactly
\* once, under the session's submission id or else the configured one) when a
\* submission id is known and BASE_URL is set; then the returned message (or
\* the default for its correct flag) is spoken if the endpoint answers ok and
\* 'Sorry, something went wrong' if it does not. Without a submission id, or
\* without BASE_URL, nothing is forwarded and an error is spoken.
C16_Amended ==
    /\ LaunchContract
    /\ AnswerHeard =>
         LET e  == skill.event
             id == IF e.attrsSubmissionId # "" THEN e.attrsSubmissionId
                   ELSE skill.TEST_SUBMISSION_ID
         IN  /\ skill.response.shouldEndSession
             /\ IF id = ""
                THEN /\ skill.calls = <<>>
                     /\ skill.response.outputSpeech.text = "Open the skill again"
                ELSE IF skill.BASE_URL = ""
                THEN /\ skill.calls = <<>>
                     /\ skill.response.outputSpeech.text = "Sorry, something went wrong."
                ELSE /\ skill.calls = <<[url |-> "/api/echo/verify", submissionId |-> id,
                                        userAnswer |-> Trim(Utterance(e))]>>
                     /\ skill.reply # NULL
                     /\ IF skill.reply.kind = "ok"
                        THEN skill.response = say(ExpectedVerdict(skill.reply), "", TRUE)
                        ELSE skill.response.outputSpeech.text = "Sorry, something went wrong."

\* ' pa ' was heard in a session opened for quiz2, forwarded once as 'pa', and
\* the backend's own message was spoken
C16_Witness ==
    /\ AnswerHeard
    /\ skill.event.slots.Answer = U_padded
    /\ skill.calls = <<[url |-> "/api/echo/verify", submissionId |-> "quiz2",
                        userAnswer |-> U_plain]>>
    /\ skill.reply = [kind |-> "ok", correct |-> FALSE, message |-> "Close enough, well done."]
    /\ skill.response = say("Close enough, well done.", "", TRUE)

\* ==================================================== splice's clip selection
\* One stored submission whose clips may have been generated, moved or never
\* made, and a temp/ directory that holds both, one or none of the legacy
\* clips. The store file outlives the process, so its veo URLs are taken as
\* they may stand on disk: naming the expected files, naming files kept under
\* another name, or with one URL missing.
MovedId == 9

StoredVeo ==
    {NULL,
     [clip1Url |-> <<1, 1>>, clip2Url |-> <<1, 2>>],
     [clip1Url |-> <<MovedId, 1>>, clip2Url |-> <<MovedId, 2>>],
     [clip1Url |-> <<MovedId, 1>>, clip2Url |-> <<>>]}

VeoDirs ==
    {{}, {<<1, 1>>, <<1, 2>>}, {<<1, 1>>},
     {<<MovedId, 1>>, <<MovedId, 2>>}, {<<1, 1>>, <<MovedId, 1>>, <<MovedId, 2>>},
     {<<1, 2>>, <<MovedId, 1>>}, {<<1, 1>>, <<1, 2>>, <<MovedId, 1>>, <<MovedId, 2>>}}

InitClips ==
    /\ \E veo \in StoredVeo : store = <<[ProcessedSubmission EXCEPT !.veo = veo]>>
    /\ uploadDir = {<<"sub", 1>>}
    /\ shotsDir = {}
    /\ veoDir \in VeoDirs
    /\ tempDir \in SUBSET {1, 2}
    /\ eavsDir = 0
    /\ env = [apiKey |-> TRUE, whisperModel |-> TRUE]
    /\ req = [r \in Slots |-> IdleReq]
    /\ nreq = 0
    /\ nextId = 1
    /\ probe = NULL
    /\ skill = SkillOff

NextClips ==
    \E r \in Slots :
        \/ SpliceStart(r)
        \/ SpliceProbed(r)
        \/ SpliceEncoded(r)

SpecClips == InitClips /\ [][NextClips]_vars

\* the submission a splice request named, as the store had it on arrival
NamedSub(a) == IF a.idx = 0 THEN NULL ELSE a.snap[a.idx]

HasBoth(files, f1, f2) == f1 \in files /\ f2 \in files

\* the clip pair the three tiers give, in their order
ClipsByPriority(sub) ==
    IF sub # NULL /\ HasBoth(veoDir, <<sub.id, 1>>, <<sub.id, 2>>)
    THEN <<"expected", <<sub.id, 1>>, <<sub.id, 2>>>>
    ELSE IF /\ sub # NULL /\ sub.veo # NULL
            /\ sub.veo.clip1Url # <<>> /\ sub.veo.clip2Url # <<>>
            /\ HasBoth(veoDir, sub.veo.clip1Url, sub.veo.clip2Url)
    THEN <<"urls", sub.veo.clip1Url, sub.veo.clip2Url>>
    ELSE IF HasBoth(tempDir, 1, 2)
    THEN <<"legacy", <<0, 1>>, <<0, 2>>>>
    ELSE <<>>

\* the request in slot r has just passed validation and settled on its clips
ClipsChosen(r) == req[r].pc # "x_probe" /\ req'[r].pc = "x_probe"

ClipsNotFound(a) == a.kind = "splice" /\ a.error = "AI clips not found."

\* C17: splice takes the submission's expected clip files when both exist,
\* else the files named by the stored clip URLs when both exist, else the
\* legacy pair when both exist, and else fails with 'AI clips not found'
\* writing no output; the two clips always come from one tier.
C17_ClipPriority ==
    [][/\ \A r \in Slots :
            ClipsChosen(r) =>
               /\ req'[r].aux.clips = ClipsByPriority(NamedSub(req'[r]))
               /\ req'[r].aux.clips # <<>>
       /\ ClipsNotFound(Last') =>
               /\ ClipsByPriority(NamedSub(Last')) = <<>>
               /\ Last'.status = 500
               /\ "ffmpeg" \notin Last'.calls
               /\ eavsDir' = eavsDir
      ]_vars

\* the clips named by the stored URLs were taken although one of the
\* expected files and one of the legacy files were there
C17_Witness ==
    \E r \in Slots :
        /\ req[r].pc = "x_probe"
        /\ req[r].aux.clips = <<"urls", <<MovedId, 1>>, <<MovedId, 2>>>>
        /\ <<1, 1>> \in veoDir
        /\ tempDir = {2}

\* ================================================ veo generation's precondition
E_MissingClips == "Missing Gemini clips. Run Analyze with Gemini first."

\* a veo request that named a stored submission without both scripts
VeoWithoutScripts(a) == a.kind = "veo" /\ a.idx # 0 /\ ~BothScripts(a.snap[a.idx])

\* C18: a veo request on a stored submission whose analysis is absent, or
\* whose question script or answer script is empty, is answered 400 'Missing
\* Gemini clips. Run Analyze with Gemini first.'; it captures no screenshot,
\* asks for no clip, and leaves the store (the veo field with it) and the
\* screenshot and clip directories as they were.
C18_MissingClips ==
    [][LET a == Last'
       IN  VeoWithoutScripts(a) =>
             /\ a.status = 400
             /\ a.error = E_MissingClips
             /\ a.calls = {}
             /\ ~a.wrote
             /\ a.snap = store
             /\ store' = store
             /\ store'[a.idx].veo = a.snap[a.idx].veo
             /\ shotsDir' = shotsDir
             /\ veoDir' = veoDir
      ]_vars

\* the request was refused for a submission that has a question script and
\* no answer script
C18_Witness ==
    /\ VeoWithoutScripts(Last)
    /\ Last.status = 400
    /\ Last.snap[Last.idx].gemini # NULL
    /\ Last.snap[Last.idx].gemini.parsed.clip1Question # <<>>
    /\ Last.snap[Last.idx].gemini.parsed.clip2Answer = <<>>

\* ===================================================== generateVeoClip's loop
\* the handler in slot r is inside generateVeoClip, before the download
AwaitsOperation(rq) == rq.kind = "veo" /\ rq.pc \in {"v_gen", "v_poll"}
AwaitsTimer(rq)     == rq.kind = "veo" /\ rq.pc = "v_wait"

ReportsDone(rq) == rq.aux.op \in {"done_video", "done_empty"}

\* between two polls exactly one timer of 10 seconds runs, and nothing but
\* the next poll follows it
PollsEveryTenSeconds(r) ==
    /\ (AwaitsTimer(req[r]) /\ req'[r] # req[r]) =>
          /\ req'[r].pc = "v_poll"
          /\ req'[r].aux.polls = req[r].aux.polls + 1
          /\ req'[r].aux.waitedMs = req[r].aux.waitedMs + 10000
    /\ (AwaitsOperation(req'[r]) \/ AwaitsTimer(req'[r])) =>
          req'[r].aux.waitedMs = 10000 * req'[r].aux.polls

\* once done is reported the call ends at once: with a video the download
\* follows, without one the call fails and no further poll is made
EndsWhenDone(r) ==
    (AwaitsOperation(req[r]) /\ req'[r] # req[r] /\ ReportsDone(req'[r])) =>
        /\ req'[r].aux.polls = req[r].aux.polls
        /\ IF req'[r].aux.op = "done_video"
           THEN req'[r].pc = "v_dl"
           ELSE /\ req'[r].pc = "done"
                /\ req'[r].status = 500
                /\ req'[r].error = "Veo returned no video file."

\* C19 as stated: polls are 10 seconds apart; the loop is left exactly when
\* the operation reports done, then the clip is downloaded or, without a
\* video, the call fails with 'Veo returned no video file.' and no retry;
\* while the operation has not reported done the call does not complete.
C19_Original ==
    [][\A r \in Slots :
          /\ PollsEveryTenSeconds(r)
          /\ EndsWhenDone(r)
          /\ (AwaitsOperation(req[r]) /\ req'[r] # req[r]) =>
                (req'[r].pc # "v_wait") = ReportsDone(req'[r])
      ]_vars

\* C19, amended: polls are 10 seconds apart; the loop is left exactly when
\* the operation reports done or a poll throws: on done the clip is
\* downloaded or, without a video, the call fails with 'Veo returned no video
\* file.' and no retry; a poll that throws fails the request with that error;
\* a poll that answers not done is always followed by another wait, so a call
\* whose polls all answer not done does not complete.
C19_Amended ==
    [][\A r \in Slots :
          /\ PollsEveryTenSeconds(r)
          /\ EndsWhenDone(r)
          /\ (AwaitsOperation(req[r]) /\ req'[r] # req[r]) =>
                /\ (req'[r].pc = "v_wait") = (req'[r].aux.op = "pending")
                /\ (req'[r].pc # "v_wait") =
                      (ReportsDone(req'[r]) \/ req'[r].aux.op = "throws")
                /\ req'[r].aux.op = "throws" =>
                      (req'[r].pc = "done" /\ req'[r].status = 500)
      ]_vars

\* after two polls, twenty seconds in, the operation was done without a video
\* and the request failed
C19_Witness ==
    /\ Last.kind = "veo"
    /\ Last.error = "Veo returned no video file."
    /\ Last.aux.polls = 2
    /\ Last.aux.waitedMs = 20000
    /\ Last.aux.op = "done_empty"

\* ==================================================== splice's output record
\* the record of a splice output as the result page reads it (eav.outputUrl,
\* eav.outputFileName, eav.timestampMs)
SpliceOutputOf(a) ==
    [outputFileName |-> a.out.outputFileName, timestampMs |-> a.aux.timestampMs]

\* C20: once a splice for a submissionId has succeeded, the stored submission
\* carries the output's file name and the requested insertion timestamp, so
\* that the next listing shows them.
C20_SpliceOutputStored ==
    [][SpliceById(Last') =>
          LET i == FindIndex(store', Last'.id)
          IN  /\ i # 0
              /\ "eav" \in DOMAIN store'[i]
              /\ store'[i].eav = SpliceOutputOf(Last')
      ]_vars

\* ================================================== splice's temporary upload
\* a splice request that came with a video file multer stored
WithTempFile(a) == a.kind = "splice" /\ a.in.file # NULL /\ MulterError(a.in.file) = "NONE"

SubprocessFailed(a) == a.kind = "splice" /\ a.error \in {"ffprobe failed", "ffmpeg exited"}

\* C21: whenever a splice request brought its own video, that temporary file
\* is gone from uploads/ when the response is sent, whatever the outcome; a
\* subprocess failure is answered 500.
C21_TempFileRemoved ==
    [][LET a == Last'
       IN  /\ WithTempFile(a) => a.in.path \notin uploadDir'
           /\ SubprocessFailed(a) => a.status = 500
      ]_vars

\* ===================================================== run(cmd, args, opts)
\* One call of the subprocess runner: the child is spawned, writes chunks to
\* stdout and stderr, and closes with an exit code; a child that cannot be
\* spawned emits 'error' and then closes with a negative code. A promise
\* keeps the first settlement it is given.
RunCommands == {"ffmpeg", "ffprobe", "whisper-cli"}
RunChunks == {"x", "y"}
ExitCodes == {"0", "1", "null"}
SpawnErrorCode == "-2"

\* resolve(v) / reject(e) on a promise: only the first one takes effect
SettlePromise(p, state, value) ==
    IF p.state = "pending"
    THEN [state |-> state, value |-> value, settled |-> p.settled + 1]
    ELSE p

\* a variant of the exit test that takes a missing code (a signal) for success
ExitOk_Falsy(code) == code \in {"0", "null"}

\* code === 0
ExitOk(code) == code = "0"

\* new Error(`${cmd} exited ${code}\n${err}`)
ExitError(cmd, code, err) == [message |-> <<cmd, " exited ", code, "\n">> \o err]

InitRun ==
    /\ store = <<>>
    /\ uploadDir = {}
    /\ shotsDir = {}
    /\ veoDir = {}
    /\ tempDir = {}
    /\ eavsDir = 0
    /\ skill = SkillOff
    /\ env = [apiKey |-> TRUE, whisperModel |-> TRUE]
    /\ req = [r \in Slots |-> IdleReq]
    /\ nreq = 0
    /\ nextId = 0
    /\ \E cmd \in RunCommands :
         probe = [stage |-> "spawned", cmd |-> cmd, spawns |-> 1,
                  out |-> <<>>, err |-> <<>>, log |-> <<>>,
                  errored |-> FALSE, code |-> "",
                  promise |-> [state |-> "pending", value |-> NULL, settled |-> 0]]

\* p.stdout.on("data") / p.stderr.on("data")
RunData ==
    \E stream \in {"stdout", "stderr"}, d \in RunChunks :
        /\ probe.stage = "spawned"
        /\ ~probe.errored
        /\ Len(probe.log) < MaxChunks
        /\ probe' = [probe EXCEPT
                        !.out = IF stream = "stdout" THEN Append(@, d) ELSE @,
                        !.err = IF stream = "stderr" THEN Append(@, d) ELSE @,
                        !.log = Append(@, [stream |-> stream, data |-> d])]
        /\ ProbeFrame

\* p.on("error", reject): the child could not be spawned
RunError ==
    /\ probe.stage = "spawned"
    /\ ~probe.errored
    /\ probe.log = <<>>
    /\ probe' = [probe EXCEPT
                    !.errored = TRUE,
                    !.promise = SettlePromise(@, "rejected", [message |-> <<"spawn ", probe.cmd>>])]
    /\ ProbeFrame

\* p.on("close", (code) => ...)
RunClose ==
    \E code \in ExitCodes \cup {SpawnErrorCode} :
        /\ probe.stage = "spawned"
        /\ probe.errored = (code = SpawnErrorCode)
        /\ probe' = [probe EXCEPT
                        !.stage = "closed",
                        !.code = code,
                        !.promise =
                            IF ExitOk(code)
                            THEN SettlePromise(@, "resolved", [out |-> probe.out, err |-> probe.err])
                            ELSE SettlePromise(@, "rejected", ExitError(probe.cmd, code, probe.err))]
        /\ ProbeFrame

NextRun == RunData \/ RunError \/ RunClose

SpecRun == InitRun /\ [][NextRun]_vars

\* what the child wrote to a stream, in order
Written_To(stream) ==
    LET on == SelectSeq(probe.log, LAMBDA e : e.stream = stream)
    IN  [k \in 1..Len(on) |-> on[k].data]

\* C22: the runner's promise settles exactly once per call, and not before
\* the child closes or fails to spawn; it resolves with the captured output
\* exactly when the child closes with exit code 0, and rejects otherwise; for
\* a child that ran and exited non-zero the error carries the command name,
\* the exit code and the captured stderr; the child is spawned once.
C22_RunSettlesOnce ==
    /\ probe.spawns = 1
    /\ probe.promise.settled <= 1
    /\ (probe.stage = "spawned" /\ ~probe.errored) => probe.promise.state = "pending"
    /\ probe.stage = "closed" =>
         /\ probe.promise.settled = 1
         /\ (probe.promise.state = "resolved") = (probe.code = "0")
         /\ (probe.promise.state = "rejected") = (probe.code # "0")
         /\ probe.promise.state = "resolved" =>
               probe.promise.value = [out |-> Written_To("stdout"), err |-> Written_To("stderr")]
         /\ (probe.promise.state = "rejected" /\ ~probe.errored) =>
               probe.promise.value =
                  [message |-> <<probe.cmd, " exited ", probe.code, "\n">> \o Written_To("stderr")]

\* ffmpeg wrote to both streams, was killed by a signal, and the call was
\* rejected with its stderr
C22_Witness ==
    /\ probe.stage = "closed"
    /\ probe.cmd = "ffmpeg"
    /\ probe.code = "null"
    /\ probe.log = <<[stream |-> "stdout", data |-> "x"], [stream |-> "stderr", data |-> "y"]>>
    /\ probe.promise = [state |-> "rejected", settled |-> 1,
                        value |-> [message |-> <<"ffmpeg", " exited ", "null", "\n", "y">>]]

\* ======================================================= sequential execution
\* The server when clients send one request at a time: a request is taken
\* only when no handler is in flight.
NoneInFlight == \A q \in Slots : Free(q)

NextSequential ==
    \/ \E r \in Slots : NoneInFlight /\ Upload(r)
    \/ \E r \in Slots : NoneInFlight /\ ListSubmissions(r)
    \/ \E r \in Slots : NoneInFlight /\ Health(r)
    \/ \E r \in Slots : NoneInFlight /\ TranscribeStart(r)
    \/ \E r \in Slots : TranscribeAudioExtracted(r)
    \/ \E r \in Slots : TranscribeWhisperDone(r)
    \/ \E r \in Slots : NoneInFlight /\ ScreenshotStart(r)
    \/ \E r \in Slots : ScreenshotProbed(r)
    \/ \E r \in Slots : ScreenshotFrameDone(r)
    \/ \E r \in Slots : NoneInFlight /\ AnalyzeStart(r)
    \/ \E r \in Slots : AnalyzeFetched(r)
    \/ \E r \in Slots : NoneInFlight /\ VeoStart(r)
    \/ \E r \in Slots : VeoProbed(r)
    \/ \E r \in Slots : VeoFrameDone(r)
    \/ \E r \in Slots : VeoOperation(r)
    \/ \E r \in Slots : VeoTimer(r)
    \/ \E r \in Slots : VeoDownloaded(r)
    \/ \E r \in Slots : NoneInFlight /\ SpliceStart(r)
    \/ \E r \in Slots : SpliceProbed(r)
    \/ \E r \in Slots : SpliceEncoded(r)
    \/ RemoveUploadedFile

SpecSequential == (Init \/ InitUploaded \/ InitProcessed) /\ [][NextSequential]_vars

\* the ids of the list, in its order
IdOrder(list) == [i \in 1..Len(list) |-> list[i].id]

\* ids are handed out in rising order, so newest first is falling ids
NewestFirst(list) == \A i, j \in 1..Len(list) : i < j => list[i].id > list[j].id

UploadStored(a) == a.kind = "upload" /\ a.status = 200

\* C23: with one request at a time the stored list is always newest first:
\* a successful upload puts its submission at the head of the list as it
\* was, and no other request changes which submissions are listed or their
\* order.
C23_NewestFirst ==
    [][/\ NewestFirst(store')
       /\ UploadStored(Last') =>
             /\ Len(store') = Len(store) + 1
             /\ store'[1].id \notin Ids(store)
             /\ Tail(store') = store
       /\ ~UploadStored(Last') => IdOrder(store') = IdOrder(store)
      ]_vars

\* a stage handler has just written the older of two submissions and the
\* list still has the newer one first
C23_Witness ==
    /\ Last.kind \in StageKinds /\ Last.status = 200 /\ Last.wrote
    /\ Len(store) = 2
    /\ Last.idx = 2
    /\ store[1].id > store[2].id

\* C24 reads each answered request against the list it read on arrival
ReadOnlyKinds == {"screenshot", "list", "health", "splice"}

\* the stored record with the request's own field taken from the new record
OnlyOwnField(old, new, kind) ==
    CASE kind = "transcribe" -> [old EXCEPT !.transcript = new.transcript]
      [] kind = "analyze"    -> [old EXCEPT !.gemini = new.gemini]
      [] kind = "veo"        -> [old EXCEPT !.veo = new.veo]

\* C24: with one request at a time, a stage request that answers ok leaves
\* the store as it found it except for its own field of the submission it
\* names (transcript, gemini or veo); screenshot, listing, health and splice
\* requests leave the store as they found it.
C24_OwnFieldOnly ==
    [][LET a == Last'
       IN  /\ (a.kind \in StageKinds /\ a.status = 200) =>
                /\ Len(store') = Len(a.snap)
                /\ \A i \in 1..Len(a.snap) : i # a.idx => store'[i] = a.snap[i]
                /\ store'[a.idx] = OnlyOwnField(a.snap[a.idx], store'[a.idx], a.kind)
           /\ a.kind \in ReadOnlyKinds => (store' = a.snap /\ store' = store)
      ]_vars

\* a processed submission was analysed again: its gemini field changed and
\* its transcript and clips are as before
C24_Witness ==
    LET a == Last
    IN  /\ a.kind = "analyze" /\ a.status = 200
        /\ a.snap[a.idx].veo # NULL
        /\ store[a.idx].gemini # a.snap[a.idx].gemini
        /\ store[a.idx].veo = a.snap[a.idx].veo
        /\ store[a.idx].transcript = a.snap[a.idx].transcript

\* ============================================== order inside clip generation
ClipRequested(rq, n) == rq.kind = "veo" /\ rq.pc = "v_gen" /\ rq.aux.clip = n

ClipFetched(rq, n) ==
    /\ rq.kind = "veo" /\ rq.pc = "v_dl"
    /\ rq.aux.clip = n /\ rq.aux.op = "done_video"

\* the clip-generation route on its own, on a submission that has been
\* analysed and whose clips have or have not been generated before
InitVeo ==
    /\ \E made \in BOOLEAN :
          /\ store = <<IF made THEN ProcessedSubmission
                       ELSE [ProcessedSubmission EXCEPT !.veo = NULL]>>
          /\ veoDir = IF made THEN {<<1, 1>>, <<1, 2>>} ELSE {}
    /\ uploadDir = {<<"sub", 1>>}
    /\ shotsDir = {}
    /\ nextId = 1
    /\ InitRest

NextVeo ==
    \E r \in Slots :
        \/ VeoStart(r)
        \/ VeoProbed(r)
        \/ VeoFrameDone(r)
        \/ VeoOperation(r)
        \/ VeoTimer(r)
        \/ VeoDownloaded(r)

SpecVeo == InitVeo /\ [][NextVeo]_vars

\* C25: inside one clip-generation request, clip 2 is requested only in the
\* step that ends the download of clip 1, after its operation reported done;
\* the store is written by the request only in the step that ends the
\* download of clip 2, with both clip files on disk; a request that fails
\* has not written veo.
C25_ClipsInOrder ==
    [][/\ \A r \in Slots :
            /\ (ClipRequested(req'[r], 2) /\ ~ClipRequested(req[r], 2)) =>
                  /\ ClipFetched(req[r], 1)
                  /\ <<req[r].id, 1>> \in veoDir'
            /\ (req'[r].kind = "veo" /\ req'[r].wrote /\ ~(req[r].kind = "veo" /\ req[r].wrote)) =>
                  /\ ClipFetched(req[r], 2)
                  /\ {<<req[r].id, 1>>, <<req[r].id, 2>>} \subseteq veoDir'
                  /\ req'[r].status = 200
       /\ (Last'.kind = "veo" /\ Last'.status # 200) =>
             (~Last'.wrote /\ store' = store)
      ]_vars

\* the request for clip 2 failed: clip 1 is on disk, clip 2 is not, and the
\* submission has no veo field
C25_Witness ==
    /\ Last.kind = "veo" /\ Last.status = 500 /\ Last.idx # 0
    /\ Last.aux # NULL /\ Last.aux.clip = 2
    /\ <<Last.id, 1>> \in veoDir
    /\ <<Last.id, 2>> \notin veoDir
    /\ Last.id \in Ids(store) /\ Stored(Last).veo = NULL

\* ============================================================ client: pollJob
\* One call of the page's pollJob(jobId): a lookup, the server's answer, a
\* one-second timer, and so on.
MaxAttempts == 1200

\* a variant of the loop condition that allows one more round
AttemptsLeft_Inclusive(attempts) == attempts <= MaxAttempts

\* while (attempts < 1200)
AttemptsLeft(attempts) == attempts < MaxAttempts

\* what a lookup can come to: the fetch or its JSON fails or the server says
\* ok: false, or the job is returned in one of its states
LookupAnswers == {"failed", "queued", "running", "done", "error"}

InitPoll ==
    /\ store = <<>>
    /\ uploadDir = {}
    /\ shotsDir = {}
    /\ veoDir = {}
    /\ tempDir = {}
    /\ eavsDir = 0
    /\ skill = SkillOff
    /\ env = [apiKey |-> TRUE, whisperModel |-> TRUE]
    /\ req = [r \in Slots |-> IdleReq]
    /\ nreq = 0
    /\ nextId = 0
    /\ probe = [pc |-> "loop", attempts |-> 0, lookups |-> 0, updates |-> 0,
                last |-> "none", result |-> "", error |-> ""]

\* the loop condition; attempts += 1; fetch(`/api/jobs/${jobId}`)
PollLoop ==
    /\ probe.pc = "loop"
    /\ probe' = IF AttemptsLeft(probe.attempts)
                THEN [probe EXCEPT !.pc = "fetch", !.attempts = @ + 1, !.lookups = @ + 1]
                ELSE [probe EXCEPT !.pc = "thrown",
                                   !.error = "Timed out waiting for generation."]
    /\ ProbeFrame

\* the lookup settles: the answer is checked, the job reported and its status
\* looked at
PollFetched ==
    \E answer \in LookupAnswers :
        /\ probe.pc = "fetch"
        /\ probe' =
             CASE answer = "failed" ->
                    [probe EXCEPT !.pc = "thrown", !.last = answer,
                                  !.error = "Job lookup failed."]
               [] answer = "done" ->
                    [probe EXCEPT !.pc = "returned", !.last = answer, !.updates = @ + 1,
                                  !.result = answer]
               [] answer = "error" ->
                    [probe EXCEPT !.pc = "thrown", !.last = answer, !.updates = @ + 1,
                                  !.error = "Pipeline failed."]
               [] OTHER ->
                    [probe EXCEPT !.pc = "wait", !.last = answer, !.updates = @ + 1]
        /\ ProbeFrame

\* setTimeout(r, 1000) fires
PollTimer ==
    /\ probe.pc = "wait"
    /\ probe' = [probe EXCEPT !.pc = "loop"]
    /\ ProbeFrame

NextPoll == PollLoop \/ PollFetched \/ PollTimer

\* every lookup is answered and every timer fires
SpecPoll == InitPoll /\ [][NextPoll]_vars /\ WF_vars(NextPoll)

PollEnded == probe.pc \in {"returned", "thrown"}

TerminalAnswer == probe.last \in {"failed", "done", "error"}

InitQuiz ==
    /\ store = <<>>
    /\ uploadDir = {}
    /\ shotsDir = {}
    /\ veoDir = {}
    /\ tempDir = {}
    /\ eavsDir = 0
    /\ skill = SkillOff
    /\ env = [apiKey |-> TRUE, whisperModel |-> TRUE]
    /\ req = [r \in Slots |-> IdleReq]
    /\ nreq = 0
    /\ nextId = 0
    /\ \E qEnd \in 1..2, supported \in BOOLEAN :
         probe = [questionEndMs |-> qEnd, answerStartMs |-> qEnd + 1,
                  supported |-> supported,
                  currentTime |-> 0, paused |-> FALSE, answered |-> FALSE,
                  recognition |-> 0, started |-> 0, active |-> {}, heard |-> {},
                  checking |-> 0, verified |-> FALSE, closed |-> FALSE]

\* showWaitScreenAndListen()
showWaitScreenAndListen(q) ==
    IF q.answered THEN q
    ELSE IF ~q.supported
         THEN [q EXCEPT !.answered = TRUE, !.paused = TRUE]
         ELSE [q EXCEPT !.answered = TRUE, !.paused = TRUE,
                        !.recognition = q.started + 1,
                        !.started = @ + 1,
                        !.active = @ \cup {q.started + 1}]

\* the video plays on and its 'timeupdate' listener runs
TimeUpdate ==
    \E t \in {probe.currentTime, probe.currentTime + 1} :
        LET q == [probe EXCEPT !.currentTime = t]
        IN  /\ ~probe.closed /\ ~probe.paused
            /\ t <= MaxTime
            /\ probe.started < MaxSessions
            /\ probe' = IF q.answered THEN q
                        ELSE IF t >= q.questionEndMs THEN showWaitScreenAndListen(q)
                        ELSE q
            /\ ProbeFrame

\* the user presses play on the video's controls
UserPlays ==
    /\ ~probe.closed /\ probe.paused
    /\ probe' = [probe EXCEPT !.paused = FALSE]
    /\ ProbeFrame

\* recognition.onresult up to its await: an empty transcript re-arms the
\* listener and calls recognition.start(), which restarts the session or
\* throws InvalidStateError, as the browser has it; an answer is sent off
RecognitionResult ==
    \E s \in probe.active \ probe.heard, empty \in BOOLEAN, restarts \in BOOLEAN :
        /\ ~probe.closed
        /\ probe' =
             IF empty
             THEN [probe EXCEPT !.answered = FALSE,
                                !.heard = IF restarts THEN (@ \cup {s}) \ {probe.recognition}
                                          ELSE @ \cup {s},
                                !.active = IF restarts THEN @ \cup {probe.recognition} ELSE @]
             ELSE [probe EXCEPT !.heard = @ \cup {s}, !.checking = @ + 1]
        /\ ProbeFrame

\* the verify call settles: the verdict is shown and spoken and the video
\* resumes at answerStartMs, or the error is shown
VerifySettled ==
    \E ok \in BOOLEAN :
        /\ probe.checking > 0
        /\ probe' =
             IF ok
             THEN [probe EXCEPT !.checking = @ - 1, !.verified = TRUE,
                                !.currentTime = probe.answerStartMs,
                                !.paused = probe.closed]
             ELSE [probe EXCEPT !.checking = @ - 1]
        /\ ProbeFrame

\* a session ends: after its result, or on an error such as no-speech
RecognitionEnd ==
    \E s \in probe.active :
        /\ probe' = [probe EXCEPT !.active = @ \ {s}, !.heard = @ \cup {s}]
        /\ ProbeFrame

\* the Close button: recognition.abort(), the overlay is removed
CloseQuiz ==
    /\ ~probe.closed
    /\ probe' = [probe EXCEPT !.closed = TRUE, !.paused = TRUE,
                              !.active = @ \ {probe.recognition}]
    /\ ProbeFrame

NextQuiz ==
    \/ TimeUpdate
    \/ UserPlays
    \/ RecognitionResult
    \/ VerifySettled
    \/ RecognitionEnd
    \/ CloseQuiz

SpecQuiz == InitQuiz /\ [][NextQuiz]_vars

SessionStarted == probe'.started > probe.started

\* C27: the playback pauses the video and starts listening at the first
\* timeupdate at or past questionEndMs and never earlier, and it starts a
\* session only while none is active and no answer has been verified.
C27_OneSession ==
    [][/\ SessionStarted =>
             /\ probe'.currentTime >= probe.questionEndMs
             /\ probe'.paused
             /\ probe.active = {}
             /\ ~probe.verified
       /\ (probe.started = 0 /\ probe.supported /\ ~probe.paused /\ ~probe.closed
             /\ probe'.currentTime >= probe.questionEndMs /\ ~probe.verified) =>
             (probe'.started = 1 /\ probe'.paused)
      ]_vars

\* ------------------------------------------ the skill's answers, event by event
\* the session's submission id, else the configured one
KnownSubmissionId ==
    IF skill.event.attrsSubmissionId # "" THEN skill.event.attrsSubmissionId
    ELSE skill.TEST_SUBMISSION_ID

\* something was extracted from the slots: the Answer slot has a value, or
\* the other slot has one that is not blank
AnswerExtracted ==
    \/ skill.event.slots.Answer # <<>>
    \/ \E k \in 1..Len(skill.event.slots.Other) : skill.event.slots.Other[k] # " "

AnswerIntentAnswered ==
    /\ Answered
    /\ skill.event.type # "LaunchRequest"
    /\ skill.event.intent = "AnswerIntent"

VerifyCalled == \E k \in 1..Len(skill.calls) : skill.calls[k].url = "/api/echo/verify"

\* version "1.0", an outputSpeech with text, a boolean shouldEndSession
WellFormed(response) ==
    /\ DOMAIN response = {"outputSpeech", "shouldEndSession"}
    /\ response.outputSpeech.text # ""
    /\ response.shouldEndSession \in BOOLEAN

\* what C28 says of every event but the empty answer
SkillAlwaysAnswers ==
    /\ Answered => WellFormed(skill.response)
    /\ VerifyCalled => (skill.event.intent = "AnswerIntent" /\ KnownSubmissionId # ""
                          /\ AnswerExtracted /\ Len(skill.calls) = 1)
    /\ (AnswerIntentAnswered /\ KnownSubmissionId # "" /\ AnswerExtracted) =>
          skill.response.shouldEndSession
    /\ ~Answered => skill.pc \in {"idle", "l_session", "a_verify"}

Reprompted == skill.response = say("I didn't catch that. What's your answer?", "", FALSE)

AllTimestamps ==
    {NULL,
     TsStr(<<>>), TsStr(<<"0">>), TsStr(<<"5">>), TsStr(<<"1", "2">>),
     TsStr(<<"-", "1">>), TsStr(<<"a">>), TsStr(<<"5", "a">>), TsStr(<<"1", ".", "5">>),
     TsNum(0), TsNum(5), TsNum(0 - 1)}

InitTimestamp ==
    /\ store = <<ProcessedSubmission>>
    /\ uploadDir = {<<"sub", 1>>}
    /\ shotsDir = {1}
    /\ veoDir = {<<1, 1>>, <<1, 2>>}
    /\ nextId = 1
    /\ InitRest

NextTimestamp ==
    \E r \in Slots :
        \/ \E ts \in AllTimestamps : SpliceStartWith(r, ts, 1, NULL)
        \/ SpliceProbed(r)
        \/ SpliceEncoded(r)

SpecTimestamp == InitTimestamp /\ [][NextTimestamp]_vars

\* the field is a non-negative integer: a JSON number that is one, or a
\* string of decimal digits
NonNegativeInteger(ts) ==
    /\ ts # NULL
    /\ \/ ts.kind = "num" /\ ts.n >= 0
       \/ DigitString(ts)

\* the request has got past the timestamp checks
TimestampTaken(r) ==
    /\ req'[r].kind = "splice" /\ req[r].kind # "splice"
    /\ ~(req'[r].status = 400)

TimestampRefused(r) ==
    /\ req'[r].kind = "splice" /\ req[r].kind # "splice"
    /\ req'[r].pc = "done" /\ req'[r].status = 400
    /\ req'[r].calls = {}
    /\ eavsDir' = eavsDir

\* C29: splice takes every non-negative integer timestamp, 0 included, sent
\* as a string or as a JSON number, and answers 400 without running anything
\* or writing an output exactly when the field is missing, is not an integer
\* or is negative.
C29_TimestampAccepted ==
    [][\A r \in Slots :
          (req'[r].kind = "splice" /\ req[r].kind # "splice") =>
             IF NonNegativeInteger(req'[r].in.timestamp)
             THEN TimestampTaken(r)
             ELSE TimestampRefused(r)
      ]_vars

\* =================================================== uploads among other requests
DistinctIds(list) == \A i, j \in 1..Len(list) : i # j => list[i].id # list[j].id

\* the step that answered request a was a stage handler's write of the list
\* it had read before submission id was uploaded
StaleWrite(a, id) ==
    /\ a.kind \in StageKinds
    /\ a.wrote
    /\ id \notin Ids(a.snap)

\* C30: the upload handler reads, inserts and writes in one step, so an
\* upload that answers ok has added its submission, under a new id, to the
\* list as it was, and no upload removes another; ids in the store stay
\* distinct. A submission leaves the store only in the step in which a stage
\* handler writes back a list it read before that submission was uploaded.
C30_UploadsKept ==
    [][/\ DistinctIds(store')
       /\ UploadStored(Last') =>
             /\ store'[1].id \notin Ids(store)
             /\ Tail(store') = store
             /\ Cardinality({i \in 1..Len(store') : store'[i].id = store'[1].id}) = 1
       /\ \A id \in Ids(store) \ Ids(store') : StaleWrite(Last', id)
      ]_vars

\* a stage handler has just written its stale list and an upload made
\* meanwhile is gone
C30_Witness ==
    /\ Last.kind \in StageKinds /\ Last.wrote
    /\ \E id \in Ids(Last.before) \ Ids(store) : StaleWrite(Last, id)

====
